---- MODULE Spec2Model ----
(***************************************************************************)
(* Miles & More statement parser of pgbytes/moneypenny                     *)
(* (internal/parsers/milesmore/parser.go), as a state machine.            *)
(*                                                                         *)
(* One behaviour of Spec is one call of Parse.  The input stream is        *)
(* produced line by line by the environment: every loop iteration of Parse *)
(* is one step, which checks the context, asks the encoding/csv reader for *)
(* the next record and classifies it exactly as the loop body does.        *)
(*                                                                         *)
(* The callers of Parse are modelled around it: a second call of Parse on  *)
(* the same stream (SpecTwice), the two commands that consume the outcome  *)
(* (cmd/cli/ynab/transform/milesmore and cmd/cli/parser/milesmore,         *)
(* SpecCmd), and TransformToCSV of internal/transform/ynab, which the      *)
(* transform command calls (SpecCmd) or which is called on its own         *)
(* (SpecTransform).                                                        *)
(*                                                                         *)
(* Strings are TLA+ strings drawn from a finite alphabet; the string       *)
(* functions of the Go library (TrimSpace, Contains, HasPrefix,            *)
(* time.Parse, strconv.ParseFloat, Time.Format) are tabulated on that      *)
(* alphabet.  A float64 is an integer number of 1/100000 units.            *)
(***************************************************************************)
EXTENDS Integers, Sequences, FiniteSets, TLC

VARIABLES
    pc,                  \* "loop": Parse is in its for loop; "done": Parse returned
    ctxDone,             \* ctx.Done() is closed
    physLine,            \* physical lines of the stream consumed so far
    lineNumber,          \* Parse's local lineNumber
    headerSkipped,       \* Parse's local headerSkipped
    record,              \* Parse's local record (last value returned by csvReader.Read)
    err,                 \* Parse's local err of the last csvReader.Read: "none", "nil", "EOF", "io"
    result,              \* *ParseResult
    occurrenceMap,       \* Parse's local occurrenceMap
    previousTransaction, \* Parse's local previousTransaction: <<>> is nil, <<t>> points to t
    ret,                 \* what Parse returned: [result, err]
    columnHeaderSeen,    \* history: the column-header branch (lines 125-128) was taken
    call,                \* which call of Parse on the stream this is: 1 or 2
    stream,              \* history: the reads of call 1, <<empty lines skipped, record>> each
    firstRet,            \* what call 1 of Parse returned, <<>> while there is no call 2
    command,             \* the command that runs: "none", "transform", "parser"
    cmdRet,              \* what the command's run returned: <<>> while it runs, <<e>> after
    shown,               \* what the parser command displayed: <<>> or <<[Transactions, Errors]>>
    tpc,                 \* TransformToCSV: "idle", "start", "rows", "done"
    transactions,        \* TransformToCSV's argument transactions
    ti,                  \* TransformToCSV's loop index i: rows written so far
    outputFile,          \* the output file: <<>> does not exist, <<rows>> holds rows
    tret,                \* what TransformToCSV returned: [result, err]
    readerBroken,        \* the io.Reader under the csv reader fails every Read from now on
    other,               \* the locals of a second, suspended call of Parse: <<>> is no such call
    requests,            \* the requests the REST client has sent to the server
    clientRet,           \* the last call of the REST client: [op, input, status, result, err]
    generated,           \* the last call of GenerateImportID: <<>> or <<[amount, date, occurrence, id]>>
    globalLogger,        \* package log: globalLogger, <<>> is nil
    defaultLogger,       \* package log: defaultLogger, <<>> is nil
    logRet,              \* the last call into package log: [op, config, err, logger]
    defaultBuilds        \* history: how many times the default logger was built

\* the state of a call of Parse
parseVars == <<pc, ctxDone, physLine, lineNumber, headerSkipped, record, err, result,
               occurrenceMap, previousTransaction, ret, columnHeaderSeen>>

\* the state of the callers of Parse and of TransformToCSV
\* the state of the REST client
clientVars == <<requests, clientRet, generated>>

\* the state of package log
logVars == <<globalLogger, defaultLogger, logRet, defaultBuilds>>

\* the state outside one call of Parse and its callers
elsewhere == <<readerBroken, other, clientVars, logVars>>

callerVars == <<call, stream, firstRet, command, cmdRet, shown, tpc, transactions, ti,
                outputFile, tret, elsewhere>>

vars == <<parseVars, callerVars>>

---------------------------------------------------------------------------
(* Bounds of the model *)

\* reads of the csv reader in one call of Parse (records and read faults)
MaxReads == 7
\* empty lines of the stream, which the csv reader skips
MaxEmptyLines == 1
\* faults of the underlying reader in one call of Parse
MaxFaults == 1

---------------------------------------------------------------------------
(* Constants of parser.go *)

colVoucherDate == 0
colReceiptDate == 1
colPayee == 2
colForeignCurrency == 3
colForeignAmount == 4
colExchangeRate == 5
colAmount == 6
colCurrency == 7
expectedColumnCount == 8
feeIdentifier == "AUSLANDSEINSATZENTGELT"
metadataLines == 4

\* record[i] of the Go code (0-indexed)
Col(rec, i) == rec[i + 1]

---------------------------------------------------------------------------
(* The Go library on the model's alphabet *)

\* strings.TrimSpace: the csv reader already trimmed leading space of unquoted fields
TrimSpace(s) ==
    CASE s = " " -> ""
      [] s = "EUR " -> "EUR"
      [] s = "Balance: " -> "Balance:"
      [] s = "Test " -> "Test"
      [] OTHER -> s

\* strings.Contains(s, "Voucher date")
ContainsVoucherDate(s) == s \in {"Voucher date", "Balance: Voucher date"}

\* strings.HasPrefix(s, "Balance:")
HasPrefixBalance(s) == s \in {"Balance:", "Balance: Voucher date"}

\* strings.Contains(s, feeIdentifier)
ContainsFeeIdentifier(s) == s \in {feeIdentifier, "1.75% AUSLANDSEINSATZENTGELT"}

\* time.Time{}: the zero time
ZeroTime == <<1, 1, 1>>

\* time.Parse("1/2/2006", s): <<year, month, day>>, or ZeroTime and an error
TimeParse(s) ==
    CASE s = "1/5/2026" -> [t |-> <<2026, 1, 5>>, ok |-> TRUE]
      [] s = "1/28/2026" -> [t |-> <<2026, 1, 28>>, ok |-> TRUE]
      [] s = "1/29/2026" -> [t |-> <<2026, 1, 29>>, ok |-> TRUE]
      [] OTHER -> [t |-> ZeroTime, ok |-> FALSE]

\* Time.Format("2006-01-02")
FormatISO(t) ==
    CASE t = <<2026, 1, 5>> -> "2026-01-05"
      [] t = <<2026, 1, 28>> -> "2026-01-28"
      [] t = <<2026, 1, 29>> -> "2026-01-29"
      [] OTHER -> "0001-01-01"

\* strconv.ParseFloat(s, 64): the float64 in units of 1/100000
ParseFloat(s) ==
    CASE s = "-10.00" -> [f |-> -1000000, ok |-> TRUE]
      [] s = "-10" -> [f |-> -1000000, ok |-> TRUE]
      [] s = "-8.44" -> [f |-> -844000, ok |-> TRUE]
      [] s = "-8.03" -> [f |-> -803000, ok |-> TRUE]
      [] s = "-0.16" -> [f |-> -16000, ok |-> TRUE]
      [] s = "100.00" -> [f |-> 10000000, ok |-> TRUE]
      [] s = "0.00000" -> [f |-> 0, ok |-> TRUE]
      [] s = "1.00000" -> [f |-> 100000, ok |-> TRUE]
      [] s = "1.18483" -> [f |-> 118483, ok |-> TRUE]
      [] s = "-1.5" -> [f |-> -150000, ok |-> TRUE]
      [] OTHER -> [f |-> 0, ok |-> FALSE]

\* int64(f * 1000) in float64 arithmetic: the product is rounded to the nearest
\* double and then truncated toward zero (-8.03 * 1000 is -8029.999999999999)
Int64Times1000(f) ==
    IF f = -803000 THEN -8029
    ELSE IF f >= 0 THEN f \div 100 ELSE -((-f) \div 100)

\* Time.Format("02-01-2006"), the ynabDateFormat of ynab.go
FormatYNAB(t) ==
    CASE t = <<2026, 1, 5>> -> "05-01-2026"
      [] t = <<2026, 1, 28>> -> "28-01-2026"
      [] t = <<2026, 1, 29>> -> "29-01-2026"
      [] OTHER -> "01-01-0001"

\* fmt.Sprintf("%.2f", f)
Sprintf2f(f) ==
    CASE f = -1000000 -> "-10.00"
      [] f = -844000 -> "-8.44"
      [] f = -803000 -> "-8.03"
      [] f = -16000 -> "-0.16"
      [] f = -150000 -> "-1.50"
      [] f = 0 -> "0.00"
      [] f = 100000 -> "1.00"
      [] f = 118483 -> "1.18"
      [] f = 10000000 -> "100.00"
      [] OTHER -> "?.??"

---------------------------------------------------------------------------
(* Errors and values *)

\* an error value: the chain of messages of fmt.Errorf("...: %w"), with the
\* numbers formatted into it; NoError is nil
Error(msg, args) == [msg |-> msg, args |-> args]
NoError == Error(<<>>, <<>>)

\* ParseError
ParseError(line, row, e) == [Line |-> line, Row |-> row, Error |-> e]

\* ParseResult
ParseResult(txs, errors, totalRows, successfulRows) ==
    [Transactions |-> txs, Errors |-> errors,
     TotalRows |-> totalRows, SuccessfulRows |-> successfulRows]

\* the sourceFile argument of Parse
sourceFile == "statement.csv"


---------------------------------------------------------------------------
(* The helpers of parser.go *)

\* parseDate: [t, err]
parseDate(dateStr) ==
    IF dateStr = ""
    THEN [t |-> ZeroTime, err |-> Error(<<"date is empty">>, <<>>)]
    ELSE IF ~TimeParse(dateStr).ok
         THEN [t |-> ZeroTime,
               err |-> Error(<<"invalid date format (expected M/D/YYYY)">>, <<>>)]
         ELSE [t |-> TimeParse(dateStr).t, err |-> NoError]

\* parseAmount: [f, err]
parseAmount(amountStr) ==
    IF amountStr = ""
    THEN [f |-> 0, err |-> Error(<<"amount is empty">>, <<>>)]
    ELSE IF ~ParseFloat(TrimSpace(amountStr)).ok
         THEN [f |-> 0, err |-> Error(<<"invalid number format">>, <<>>)]
         ELSE [f |-> ParseFloat(TrimSpace(amountStr)).f, err |-> NoError]

\* parseExchangeRate: [f, err]
parseExchangeRate(rateStr) ==
    IF rateStr = ""
    THEN [f |-> 0, err |-> NoError]
    ELSE IF ~ParseFloat(TrimSpace(rateStr)).ok
         THEN [f |-> 0, err |-> Error(<<"invalid exchange rate">>, <<>>)]
         ELSE [f |-> ParseFloat(TrimSpace(rateStr)).f, err |-> NoError]

\* fmt.Errorf(msg + ": %w", e)
Wrap(msg, e) == Error(<<msg>> \o e.msg, e.args)

\* the foreign-currency block of parseTransaction (lines 227-243): the three
\* foreign fields of the transaction
foreignFields(rec) ==
    LET foreignCurrency == TrimSpace(Col(rec, colForeignCurrency))
        foreignAmount == parseAmount(TrimSpace(Col(rec, colForeignAmount)))
        exchangeRate == parseExchangeRate(TrimSpace(Col(rec, colExchangeRate)))
    IN  IF foreignCurrency # "" /\ foreignCurrency # "EUR"
        THEN [ForeignCurrency |-> foreignCurrency,
              ForeignAmount |-> IF foreignAmount.err = NoError THEN foreignAmount.f ELSE 0,
              ExchangeRate |-> IF exchangeRate.err = NoError /\ exchangeRate.f > 0
                               THEN exchangeRate.f ELSE 0]
        ELSE [ForeignCurrency |-> "", ForeignAmount |-> 0, ExchangeRate |-> 0]

\* mutant of settlementCurrency: the currency column is not trimmed
settlementCurrencyUntrimmed(rec) ==
    LET currency == Col(rec, colCurrency)
    IN  IF currency # "" THEN currency ELSE "EUR"

\* the currency of parseTransaction (lines 191, 221-225)
settlementCurrency(rec) ==
    LET currency == TrimSpace(Col(rec, colCurrency))
    IN  IF currency # "" THEN currency ELSE "EUR"

\* parseTransaction: [t, err]; t is <<>> (nil) when err is not nil
parseTransaction(rec, line, file) ==
    LET voucherDate == parseDate(TrimSpace(Col(rec, colVoucherDate)))
        receiptDate == parseDate(TrimSpace(Col(rec, colReceiptDate)))
        payee == TrimSpace(Col(rec, colPayee))
        amount == parseAmount(TrimSpace(Col(rec, colAmount)))
        foreign == foreignFields(rec)
    IN  IF voucherDate.err # NoError
        THEN [t |-> <<>>, err |-> Wrap("invalid voucher date", voucherDate.err)]
        ELSE IF receiptDate.err # NoError
        THEN [t |-> <<>>, err |-> Wrap("invalid receipt date", receiptDate.err)]
        ELSE IF payee = ""
        THEN [t |-> <<>>, err |-> Error(<<"payee is required">>, <<>>)]
        ELSE IF amount.err # NoError
        THEN [t |-> <<>>, err |-> Wrap("invalid amount", amount.err)]
        ELSE [t |-> << [Date |-> voucherDate.t,
                        PostingDate |-> receiptDate.t,
                        Payee |-> payee,
                        Memo |-> <<>>,
                        Amount |-> amount.f,
                        Currency |-> settlementCurrency(rec),
                        ForeignAmount |-> foreign.ForeignAmount,
                        ForeignCurrency |-> foreign.ForeignCurrency,
                        ExchangeRate |-> foreign.ExchangeRate,
                        ImportID |-> <<>>,
                        SourceFile |-> file,
                        SourceLine |-> line] >>,
              err |-> NoError]

\* occurrenceMap[baseKey] of a Go map: 0 for a key that is not in the map
MapGet(m, k) == IF k \in DOMAIN m THEN m[k] ELSE 0

\* mutant of baseKey: the occurrences are counted per date
baseKeyDateOnly(t) == <<FormatISO(t.Date)>>

\* the base key of generateImportID: fmt.Sprintf("%d:%s", milliunits, isoDate)
baseKey(t) == <<Int64Times1000(t.Amount), FormatISO(t.Date)>>

\* generateImportID, the map after the call: occurrenceMap[baseKey]++
incrementOccurrence(t, m) ==
    [k \in DOMAIN m \cup {baseKey(t)} |->
        IF k = baseKey(t) THEN MapGet(m, k) + 1 ELSE m[k]]

\* mutant of generateImportID: the ID is built without the occurrence counter
generateImportIDNoCounter(t, m) ==
    <<"YNAB", Int64Times1000(t.Amount), FormatISO(t.Date)>>

\* generateImportID, the string returned:
\* fmt.Sprintf("YNAB:%d:%s:%d", milliunits, isoDate, occurrence)
generateImportID(t, m) ==
    <<"YNAB", Int64Times1000(t.Amount), FormatISO(t.Date),
      incrementOccurrence(t, m)[baseKey(t)]>>

\* mutant of feeMemo: the previous transaction is not tested for a foreign currency
feeMemoAnyPrevious(t, prev) ==
    IF ContainsFeeIdentifier(t.Payee) /\ prev # <<>>
    THEN <<"Fee for transaction: ", prev[1].Payee>>
    ELSE <<>>

\* the fee association of Parse (lines 166-172): the memo of transaction t
feeMemo(t, prev) ==
    IF ContainsFeeIdentifier(t.Payee) /\ prev # <<>>
    THEN IF prev[1].ForeignCurrency # "" /\ prev[1].ForeignAmount # 0
         THEN <<"Fee for transaction: ", prev[1].Payee>>
         ELSE <<>>
    ELSE <<>>

---------------------------------------------------------------------------
(* The input stream *)

\* the records the csv reader may deliver (fields split at ';', leading space
\* of a field trimmed by the reader)
HeaderRow == <<"Voucher date", "Date of receipt", "Reason for payment",
               "Foreign currency", "Amount", "Exchange rate", "Amount", "Currency">>
BlankRow == <<" ">>
EmptyFieldRow == <<"">>
BalanceRow == <<"Balance:", "", "", "", "", "100.00", "EUR">>
BalanceHeaderRow == <<"Balance: Voucher date", "", "", "", "", "100.00", "EUR">>
DomesticRow == <<"1/5/2026", "1/5/2026", "Test", "", "", "0.00000", "-10.00", "EUR">>
DefaultCurrencyRow == <<"1/5/2026", "1/5/2026", "Test ", "EUR", "-10", "1.00000", "-10", " ", "extra">>
ForeignRow == <<"1/28/2026", "1/29/2026", "RECALL", "USD", "-10", "1.18483", "-8.44", "EUR">>
FeeRow == <<"1/29/2026", "1/29/2026", "AUSLANDSEINSATZENTGELT", "", "", "0.00000", "-0.16", "EUR">>
BadRateRow == <<"1/28/2026", "1/29/2026", "Cafe", "USD", "abc", "invalid", "-8.03", "USD">>
BadDateRow == <<"2026-01-29", "1/29/2026", "Test", "", "", "0.00000", "-10.00", "EUR">>
EmptyPayeeRow == <<"1/5/2026", "1/5/2026", " ", "", "", "0.00000", "-10.00", "EUR">>
BadAmountRow == <<"1/5/2026", "1/5/2026", "Test", "", "", "0.00000", "abc", "EUR">>
ShortRow == <<"1/5/2026", "1/5/2026", "Test">>

Rows ==
    {HeaderRow, BlankRow, EmptyFieldRow, BalanceRow, BalanceHeaderRow, DomesticRow, DefaultCurrencyRow, ForeignRow,
     FeeRow, BadRateRow, BadDateRow, EmptyPayeeRow, BadAmountRow, ShortRow}

\* what csvReader.Read returns beside a read fault of the underlying reader:
\* the fields of the part of the line that was read before the fault
PartialRows == {<<"">>, <<"Balance:">>}

---------------------------------------------------------------------------
(* Parse *)

\* lines 84-92: the result and the locals of Parse when its loop starts
ParseStarts ==
    /\ physLine = 0
    /\ lineNumber = 0
    /\ headerSkipped = FALSE
    /\ record = <<>>
    /\ err = "none"
    /\ result = ParseResult(<<>>, <<>>, 0, 0)
    /\ occurrenceMap = [k \in {} |-> 0]
    /\ previousTransaction = <<>>
    /\ ret = [result |-> <<>>, err |-> NoError]
    /\ columnHeaderSeen = FALSE

\* this is the first call of Parse on the stream
FirstCall ==
    /\ call = 1
    /\ stream = <<>>
    /\ firstRet = <<>>

\* TransformToCSV is not called (yet)
NoTransform ==
    /\ tpc = "idle"
    /\ transactions = <<>>
    /\ ti = 0
    /\ outputFile = <<>>
    /\ tret = [result |-> <<>>, err |-> NoError]

\* the REST client has not been called
NoClient ==
    /\ requests = <<>>
    /\ clientRet = [op |-> "none", input |-> <<>>, status |-> <<>>, result |-> <<>>,
                    err |-> NoError]
    /\ generated = <<>>

\* package log before any call: both package variables are nil
NoLogger ==
    /\ globalLogger = <<>>
    /\ defaultLogger = <<>>
    /\ logRet = [op |-> "none", config |-> <<>>, err |-> NoError, logger |-> <<>>]
    /\ defaultBuilds = 0

\* one call of Parse on a reader that works, nothing else in the process
NoElsewhere ==
    /\ readerBroken = FALSE
    /\ other = <<>>
    /\ NoClient
    /\ NoLogger

\* nothing runs around the call of Parse
NoCaller ==
    /\ FirstCall
    /\ NoElsewhere
    /\ command = "none"
    /\ cmdRet = <<>>
    /\ shown = <<>>
    /\ NoTransform

\* one call of Parse, with a context that may be done already
Init ==
    /\ pc = "loop"
    /\ ctxDone \in BOOLEAN
    /\ ParseStarts
    /\ NoCaller

\* the empty lines the csv reader has skipped so far (every read consumes one
\* more line)
emptyLines == physLine - lineNumber

\* the read faults met so far
readFaults ==
    Cardinality({i \in DOMAIN result.Errors :
                    result.Errors[i].Error.msg[1] = "csv read error"})

\* the caller cancels the context while Parse runs
Cancel ==
    /\ pc = "loop"
    /\ ~ctxDone
    /\ ctxDone' = TRUE
    /\ UNCHANGED <<pc, physLine, lineNumber, headerSkipped, record, err, result,
                   occurrenceMap, previousTransaction, ret, columnHeaderSeen>>

\* mutant of cancellationObserved: the context is checked before the first read only
cancellationObservedOnce == ctxDone /\ lineNumber = 0

\* lines 96-100: the select on ctx.Done() at the top of the loop
cancellationObserved == ctxDone

\* line 98: return nil, fmt.Errorf("parsing cancelled: %w", ctx.Err())
ParseCancelled ==
    /\ pc = "loop"
    /\ cancellationObserved
    /\ pc' = "done"
    /\ ret' = [result |-> <<>>,
               err |-> Wrap("parsing cancelled", Error(<<"context canceled">>, <<>>))]
    /\ UNCHANGED <<ctxDone, physLine, lineNumber, headerSkipped, record, err, result,
                   occurrenceMap, previousTransaction, columnHeaderSeen>>

\* lines 102-107 and 183: csvReader.Read returns io.EOF, the loop ends and
\* Parse returns the result
ParseEOF ==
    /\ pc = "loop"
    /\ ~cancellationObserved
    /\ lineNumber' = lineNumber + 1
    /\ record' = <<>>
    /\ err' = "EOF"
    /\ pc' = "done"
    /\ ret' = [result |-> <<result>>, err |-> NoError]
    /\ UNCHANGED <<ctxDone, physLine, headerSkipped, result, occurrenceMap,
                   previousTransaction, columnHeaderSeen>>

\* lines 109-117: csvReader.Read returns an error that is not io.EOF.  With
\* LazyQuotes and FieldsPerRecord = -1 the reader reports no csv.ParseError:
\* such an error is a fault of the underlying io.Reader, met after empty lines
\* were skipped and part was read
ParseReadError(empty, part) ==
    /\ pc = "loop"
    /\ ~cancellationObserved
    /\ lineNumber < MaxReads
    /\ emptyLines + empty <= MaxEmptyLines
    /\ readFaults < MaxFaults
    /\ physLine' = physLine + empty + 1
    /\ lineNumber' = lineNumber + 1
    /\ record' = part
    /\ err' = "io"
    /\ result' = [result EXCEPT !.Errors =
                    Append(@, ParseError(lineNumber', part,
                              Wrap("csv read error", Error(<<"read fault">>, <<>>))))]
    /\ UNCHANGED <<pc, ctxDone, headerSkipped, occurrenceMap, previousTransaction,
                   ret, columnHeaderSeen>>

\* mutant of isEmptyRow: the single field is compared without TrimSpace
isEmptyRowUntrimmed(rec) == Len(rec) = 0 \/ (Len(rec) = 1 /\ rec[1] = "")

\* line 134: the empty-row test
isEmptyRow(rec) == Len(rec) = 0 \/ (Len(rec) = 1 /\ TrimSpace(rec[1]) = "")

\* mutant of isBalanceRow: the balance test is made on full rows only
isBalanceRowFullRow(rec) ==
    Len(rec) >= expectedColumnCount /\ HasPrefixBalance(TrimSpace(rec[1]))

\* line 139: the balance-row test
isBalanceRow(rec) == Len(rec) > 0 /\ HasPrefixBalance(TrimSpace(rec[1]))

\* line 125: the column-header test
isColumnHeader(rec) == Len(rec) > 0 /\ ContainsVoucherDate(rec[1])

\* mutant of isMetadataLine: the test is lineNumber < 4
isMetadataLineStrict(line) == line < metadataLines

\* line 121: the metadata test
isMetadataLine(line) == line <= metadataLines

\* a continue that leaves the result alone (lines 122, 127, 135, 140)
skipRow == UNCHANGED <<pc, ret, result, occurrenceMap, previousTransaction>>

\* mutant of rowFailure: the first row failure ends the call with the error
rowFailureAborts(e) ==
    /\ pc' = "done"
    /\ ret' = [result |-> <<>>, err |-> e]
    /\ UNCHANGED <<result, occurrenceMap, previousTransaction>>

\* mutant of rowFailure: a failed row also forgets the previous transaction
rowFailureForgets(e) ==
    /\ result' = [result EXCEPT !.Errors = Append(@, ParseError(lineNumber', record', e)),
                                !.TotalRows = @ + 1]
    /\ previousTransaction' = <<>>
    /\ UNCHANGED <<pc, ret, occurrenceMap>>

\* lines 145-151 and 157-163: a row failure is recorded and the loop continues
rowFailure(e) ==
    /\ result' = [result EXCEPT !.Errors = Append(@, ParseError(lineNumber', record', e)),
                                !.TotalRows = @ + 1]
    /\ UNCHANGED <<pc, ret, occurrenceMap, previousTransaction>>

\* mutant of emitTransaction: SuccessfulRows is not incremented
emitTransactionUncounted(parsed) ==
    LET t == [parsed EXCEPT !.Memo = feeMemo(parsed, previousTransaction),
                            !.ImportID = generateImportID(parsed, occurrenceMap)]
    IN  /\ occurrenceMap' = incrementOccurrence(parsed, occurrenceMap)
        /\ result' = [result EXCEPT !.Transactions = Append(@, t),
                                    !.TotalRows = @ + 1]
        /\ previousTransaction' = <<t>>
        /\ UNCHANGED <<pc, ret>>

\* lines 166-180: the parsed transaction gets its memo and import ID and is appended
emitTransaction(parsed) ==
    LET t == [parsed EXCEPT !.Memo = feeMemo(parsed, previousTransaction),
                            !.ImportID = generateImportID(parsed, occurrenceMap)]
    IN  /\ occurrenceMap' = incrementOccurrence(parsed, occurrenceMap)
        /\ result' = [result EXCEPT !.Transactions = Append(@, t),
                                    !.TotalRows = @ + 1,
                                    !.SuccessfulRows = @ + 1]
        /\ previousTransaction' = <<t>>
        /\ UNCHANGED <<pc, ret>>

\* mutant of dataRow: the column count is tested with != instead of <
dataRowExactColumns(rec) ==
    IF Len(rec) # expectedColumnCount
    THEN rowFailure(Error(<<"expected %d columns, got %d">>,
                          <<expectedColumnCount, Len(rec)>>))
    ELSE LET parsed == parseTransaction(rec, lineNumber', sourceFile)
         IN  IF parsed.err # NoError
             THEN rowFailure(parsed.err)
             ELSE emitTransaction(parsed.t[1])

\* lines 143-180: a row that is neither skipped nor a header
dataRow(rec) ==
    IF Len(rec) < expectedColumnCount
    THEN rowFailure(Error(<<"expected %d columns, got %d">>,
                          <<expectedColumnCount, Len(rec)>>))
    ELSE LET parsed == parseTransaction(rec, lineNumber', sourceFile)
         IN  IF parsed.err # NoError
             THEN rowFailure(parsed.err)
             ELSE emitTransaction(parsed.t[1])

\* lines 102-180: csvReader.Read skips `empty` empty lines and returns the
\* record rec, which the loop body classifies
ParseRecord(empty, rec) ==
    /\ pc = "loop"
    /\ ~cancellationObserved
    /\ lineNumber < MaxReads
    /\ emptyLines + empty <= MaxEmptyLines
    /\ physLine' = physLine + empty + 1
    /\ lineNumber' = lineNumber + 1
    /\ record' = rec
    /\ err' = "nil"
    /\ UNCHANGED ctxDone
    /\ IF ~headerSkipped /\ isMetadataLine(lineNumber')
       THEN skipRow /\ UNCHANGED <<headerSkipped, columnHeaderSeen>>
       ELSE IF ~headerSkipped /\ isColumnHeader(rec)
       THEN skipRow /\ headerSkipped' = TRUE /\ columnHeaderSeen' = TRUE
       ELSE /\ headerSkipped' = TRUE
            /\ UNCHANGED columnHeaderSeen
            /\ IF isEmptyRow(rec) THEN skipRow
               ELSE IF isBalanceRow(rec) THEN skipRow
               ELSE dataRow(rec)

\* a call of Parse on a stream whose underlying reader does not fault
Next ==
    \/ Cancel /\ UNCHANGED callerVars
    \/ ParseCancelled /\ UNCHANGED callerVars
    \/ ParseEOF /\ UNCHANGED callerVars
    \/ \E empty \in 0..MaxEmptyLines : \E rec \in Rows :
          ParseRecord(empty, rec) /\ UNCHANGED callerVars

Spec == Init /\ [][Next]_vars

\* a call of Parse on a stream whose underlying reader may fault
NextIO ==
    \/ Cancel /\ UNCHANGED callerVars
    \/ ParseCancelled /\ UNCHANGED callerVars
    \/ ParseEOF /\ UNCHANGED callerVars
    \/ \E empty \in 0..MaxEmptyLines : \E rec \in Rows :
          ParseRecord(empty, rec) /\ UNCHANGED callerVars
    \/ \E empty \in 0..MaxEmptyLines : \E part \in PartialRows :
          ParseReadError(empty, part) /\ UNCHANGED callerVars

SpecIO == Init /\ [][NextIO]_vars

---------------------------------------------------------------------------
(* Two calls of Parse, one after the other, on the same stream *)

\* the records of the streams that are parsed twice: the metadata block is a
\* block of whitespace rows, the rows after it are drawn from TwiceRows
TwiceRows == {HeaderRow, DomesticRow, DefaultCurrencyRow, ForeignRow, BadDateRow}
TwiceRowsAt(line) == IF line <= metadataLines THEN {BlankRow} ELSE TwiceRows

\* neither call is cancelled
InitTwice ==
    /\ pc = "loop"
    /\ ctxDone = FALSE
    /\ ParseStarts
    /\ NoCaller

\* call 1 reads a record, which is remembered as part of the stream
FirstCallReads(empty, rec) ==
    /\ call = 1
    /\ ParseRecord(empty, rec)
    /\ stream' = Append(stream, <<empty, rec>>)
    /\ UNCHANGED <<elsewhere, call, firstRet, command, cmdRet, shown, tpc, transactions, ti,
                   outputFile, tret>>

\* call 2 reads the record that call 1 read at the same place
SecondCallReads ==
    /\ call = 2
    /\ lineNumber < Len(stream)
    /\ ParseRecord(stream[lineNumber + 1][1], stream[lineNumber + 1][2])
    /\ UNCHANGED callerVars

\* the stream ends: for call 2 where it ended for call 1
StreamEnds ==
    /\ call = 2 => lineNumber = Len(stream)
    /\ ParseEOF
    /\ UNCHANGED callerVars

\* mutant of ParseAgain: the occurrence map outlives the call (a package-level map)
ParseAgainSharedMap ==
    /\ pc = "done"
    /\ call = 1
    /\ call' = 2
    /\ firstRet' = <<ret>>
    /\ pc' = "loop"
    /\ physLine' = 0
    /\ lineNumber' = 0
    /\ headerSkipped' = FALSE
    /\ record' = <<>>
    /\ err' = "none"
    /\ result' = ParseResult(<<>>, <<>>, 0, 0)
    /\ previousTransaction' = <<>>
    /\ ret' = [result |-> <<>>, err |-> NoError]
    /\ columnHeaderSeen' = FALSE
    /\ UNCHANGED <<elsewhere, ctxDone, occurrenceMap, stream, command, cmdRet, shown, tpc,
                   transactions, ti, outputFile, tret>>

\* Parse is called again on the same input: lines 84-92 make a new result, a
\* new occurrenceMap and new locals; Parse has no package-level state
ParseAgain ==
    /\ pc = "done"
    /\ call = 1
    /\ call' = 2
    /\ firstRet' = <<ret>>
    /\ pc' = "loop"
    /\ physLine' = 0
    /\ lineNumber' = 0
    /\ headerSkipped' = FALSE
    /\ record' = <<>>
    /\ err' = "none"
    /\ result' = ParseResult(<<>>, <<>>, 0, 0)
    /\ occurrenceMap' = [k \in {} |-> 0]
    /\ previousTransaction' = <<>>
    /\ ret' = [result |-> <<>>, err |-> NoError]
    /\ columnHeaderSeen' = FALSE
    /\ UNCHANGED <<elsewhere, ctxDone, stream, command, cmdRet, shown, tpc, transactions, ti,
                   outputFile, tret>>

NextTwice ==
    \/ \E empty \in 0..MaxEmptyLines : \E rec \in TwiceRowsAt(lineNumber + 1) :
          FirstCallReads(empty, rec)
    \/ SecondCallReads
    \/ StreamEnds
    \/ ParseAgain

SpecTwice == InitTwice /\ [][NextTwice]_vars

---------------------------------------------------------------------------
(* TransformToCSV of internal/transform/ynab/ynab.go *)

\* transactions handed to TransformToCSV in one call
MaxRows == 3

\* csvHeaders; the text of a memo field is the tuple of its parts, as in feeMemo
csvHeaders == <<"Date", "Payee", <<"Memo">>, "Amount">>

\* formatAmount
formatAmount(amount) == Sprintf2f(amount)

\* mutant of transactionToRow: an empty payee is written as "Unknown"
transactionToRowNamed(tx) ==
    <<FormatYNAB(tx.Date), IF tx.Payee = "" THEN "Unknown" ELSE tx.Payee, tx.Memo,
      formatAmount(tx.Amount)>>

\* transactionToRow
transactionToRow(tx) ==
    <<FormatYNAB(tx.Date), tx.Payee, tx.Memo, formatAmount(tx.Amount)>>

\* the outputPath argument: GenerateOutputPath("statement.csv")
outputPath == "statement_ynab.csv"

\* TransformResult
TransformResult(path, count) == [OutputPath |-> path, TransactionCount |-> count]

\* ctx.Err() of a cancelled context
ctxErr == Error(<<"context canceled">>, <<>>)

\* the transactions of the direct calls: a domestic one, a fee with its memo,
\* and one without payee
SampleDomestic == parseTransaction(DomesticRow, 5, sourceFile).t[1]
SampleFee ==
    [parseTransaction(FeeRow, 6, sourceFile).t[1]
        EXCEPT !.Memo = <<"Fee for transaction: ", "RECALL">>]
SampleNoPayee == [SampleDomestic EXCEPT !.Payee = ""]
SampleTransactions == {SampleDomestic, SampleFee, SampleNoPayee}
TransformInputs == UNION {[1..n -> SampleTransactions] : n \in 0..MaxRows}

\* the caller cancels the context while TransformToCSV runs
CancelTransform ==
    /\ tpc \in {"start", "rows"}
    /\ ~ctxDone
    /\ ctxDone' = TRUE
    /\ UNCHANGED <<pc, physLine, lineNumber, headerSkipped, record, err, result,
                   occurrenceMap, previousTransaction, ret, columnHeaderSeen>>
    /\ UNCHANGED callerVars

\* mutant of transformCancellationObserved: the context is checked before the
\* start only
transformCancellationObservedAtStart == ctxDone /\ tpc = "start"

\* lines 53-57 and 77-81: the select on ctx.Done()
transformCancellationObserved == ctxDone

\* lines 53-57: return nil, fmt.Errorf("transform cancelled: %w", ctx.Err())
TransformCancelledAtStart ==
    /\ tpc = "start"
    /\ transformCancellationObserved
    /\ tpc' = "done"
    /\ tret' = [result |-> <<>>, err |-> Wrap("transform cancelled", ctxErr)]
    /\ UNCHANGED <<elsewhere, parseVars, call, stream, firstRet, command, cmdRet, shown,
                   transactions, ti, outputFile>>

\* lines 59-72: os.Create, csv.NewWriter and the header row
TransformBegins(created, written) ==
    /\ tpc = "start"
    /\ ~transformCancellationObserved
    /\ IF ~created
       THEN /\ tpc' = "done"
            /\ tret' = [result |-> <<>>,
                        err |-> Wrap("creating output file",
                                     Error(<<"no such file or directory">>, <<>>))]
            /\ UNCHANGED outputFile
       ELSE IF ~written
       THEN /\ tpc' = "done"
            /\ tret' = [result |-> <<>>,
                        err |-> Wrap("writing header row", Error(<<"write fault">>, <<>>))]
            /\ outputFile' = << <<>> >>
       ELSE /\ tpc' = "rows"
            /\ outputFile' = << <<csvHeaders>> >>
            /\ UNCHANGED tret
    /\ UNCHANGED <<elsewhere, parseVars, call, stream, firstRet, command, cmdRet, shown,
                   transactions, ti>>

\* lines 77-81: return nil, fmt.Errorf("transform cancelled at row %d: %w", i+1, ctx.Err())
TransformCancelledAtRow ==
    /\ tpc = "rows"
    /\ ti < Len(transactions)
    /\ transformCancellationObserved
    /\ tpc' = "done"
    /\ tret' = [result |-> <<>>,
                err |-> Error(<<"transform cancelled at row %d">> \o ctxErr.msg, <<ti + 1>>)]
    /\ UNCHANGED <<elsewhere, parseVars, call, stream, firstRet, command, cmdRet, shown,
                   transactions, ti, outputFile>>

\* lines 83-86: the row of transactions[i] is written
TransformWritesRow(written) ==
    /\ tpc = "rows"
    /\ ti < Len(transactions)
    /\ ~transformCancellationObserved
    /\ IF written
       THEN /\ outputFile' = <<Append(outputFile[1], transactionToRow(transactions[ti + 1]))>>
            /\ ti' = ti + 1
            /\ UNCHANGED <<tpc, tret>>
       ELSE /\ tpc' = "done"
            /\ tret' = [result |-> <<>>,
                        err |-> Error(<<"writing row %d", "write fault">>, <<ti + 1>>)]
            /\ UNCHANGED <<ti, outputFile>>
    /\ UNCHANGED <<elsewhere, parseVars, call, stream, firstRet, command, cmdRet, shown,
                   transactions>>

\* lines 89-98: after the last row the writer is flushed and the result returned
TransformReturns(flushed) ==
    /\ tpc = "rows"
    /\ ti = Len(transactions)
    /\ tpc' = "done"
    /\ tret' = IF flushed
               THEN [result |-> <<TransformResult(outputPath, Len(transactions))>>,
                     err |-> NoError]
               ELSE [result |-> <<>>,
                     err |-> Wrap("flushing csv writer", Error(<<"write fault">>, <<>>))]
    /\ UNCHANGED <<elsewhere, parseVars, call, stream, firstRet, command, cmdRet, shown,
                   transactions, ti, outputFile>>

\* a step of TransformToCSV
TransformToCSV ==
    \/ TransformCancelledAtStart
    \/ \E created, written \in BOOLEAN : TransformBegins(created, written)
    \/ TransformCancelledAtRow
    \/ \E written \in BOOLEAN : TransformWritesRow(written)
    \/ \E flushed \in BOOLEAN : TransformReturns(flushed)

\* TransformToCSV is called with some transactions and a context that may be
\* done already; Parse does not run
InitTransform ==
    /\ pc = "idle"
    /\ ctxDone \in BOOLEAN
    /\ ParseStarts
    /\ FirstCall
    /\ NoElsewhere
    /\ command = "none"
    /\ cmdRet = <<>>
    /\ shown = <<>>
    /\ tpc = "start"
    /\ transactions \in TransformInputs
    /\ ti = 0
    /\ outputFile = <<>>
    /\ tret = [result |-> <<>>, err |-> NoError]

NextTransform ==
    \/ CancelTransform
    \/ TransformCancelledAtStart
    \/ \E created, written \in BOOLEAN : TransformBegins(created, written)
    \/ TransformCancelledAtRow
    \/ \E written \in BOOLEAN : TransformWritesRow(written)
    \/ \E flushed \in BOOLEAN : TransformReturns(flushed)

SpecTransform == InitTransform /\ [][NextTransform]_vars

---------------------------------------------------------------------------
(* The commands that call Parse: `mp ynab transform milesmore`              *)
(* (cmd/cli/ynab/transform/milesmore/milesmore.go) and `mp parser           *)
(* milesmore` (cmd/cli/parser/milesmore)                                    *)

\* what validateFilePath of the parser command returns
validateFilePath ==
    {NoError,
     Error(<<"file path is required">>, <<>>),
     Error(<<"file does not exist: %s">>, <<sourceFile>>),
     Error(<<"checking file", "permission denied">>, <<>>),
     Error(<<"path is a directory, not a file: %s">>, <<sourceFile>>),
     Error(<<"file must have .csv extension, got: %s">>, <<".txt">>),
     Error(<<"file is empty: %s">>, <<sourceFile>>)}

\* displayTable: the rows of the table, DATE, PAYEE (no payee of the model is
\* longer than the 45 characters of truncateString) and AMOUNT
displayTable(r) ==
    [i \in DOMAIN r.Transactions |->
        <<FormatISO(r.Transactions[i].Date), r.Transactions[i].Payee,
          Sprintf2f(r.Transactions[i].Amount)>>]

\* displayErrors: line, error and raw row of every row error
displayErrors(r) ==
    [i \in DOMAIN r.Errors |->
        <<r.Errors[i].Line, r.Errors[i].Error, r.Errors[i].Row>>]

\* a command starts; the parser command parses with context.Background(),
\* which is never done, the transform command with the context of the command
InitCmd ==
    /\ command \in {"transform", "parser"}
    /\ pc = "idle"
    /\ ctxDone \in (IF command = "transform" THEN BOOLEAN ELSE {FALSE})
    /\ ParseStarts
    /\ FirstCall
    /\ NoElsewhere
    /\ cmdRet = <<>>
    /\ shown = <<>>
    /\ NoTransform

\* the command returns e
Returns(e) ==
    /\ cmdRet' = <<e>>
    /\ UNCHANGED <<elsewhere, parseVars, call, stream, firstRet, command, shown, tpc,
                   transactions, ti, outputFile, tret>>

\* Parse is called on the opened file
CallsParse ==
    /\ pc' = "loop"
    /\ UNCHANGED <<ctxDone, physLine, lineNumber, headerSkipped, record, err, result,
                   occurrenceMap, previousTransaction, ret, columnHeaderSeen>>
    /\ UNCHANGED callerVars

\* transform run, lines 42-66: os.Stat and os.Open, then Parse is called
TransformRunOpens(found, opened) ==
    /\ command = "transform"
    /\ pc = "idle"
    /\ cmdRet = <<>>
    /\ IF ~found
       THEN Returns(Error(<<"input file not found: %s">>, <<sourceFile>>))
       ELSE IF ~opened
       THEN Returns(Wrap("opening input file", Error(<<"permission denied">>, <<>>)))
       ELSE CallsParse

\* TransformToCSV is called with the transactions of the outcome
CallsTransformToCSV ==
    /\ tpc' = "start"
    /\ transactions' = ret.result[1].Transactions
    /\ UNCHANGED <<elsewhere, parseVars, call, stream, firstRet, command, cmdRet, shown, ti,
                   outputFile, tret>>

\* mutant of TransformRunAfterParse: no strict mode, the row errors are not looked at
TransformRunAfterParseLenient ==
    /\ command = "transform"
    /\ pc = "done"
    /\ cmdRet = <<>>
    /\ tpc = "idle"
    /\ IF ret.err # NoError
       THEN Returns(Wrap("parsing Miles & More CSV", ret.err))
       ELSE IF Len(ret.result[1].Transactions) = 0
       THEN Returns(Error(<<"no transactions to transform">>, <<>>))
       ELSE CallsTransformToCSV

\* transform run, lines 66-95: Parse returned; strict mode
TransformRunAfterParse ==
    /\ command = "transform"
    /\ pc = "done"
    /\ cmdRet = <<>>
    /\ tpc = "idle"
    /\ IF ret.err # NoError
       THEN Returns(Wrap("parsing Miles & More CSV", ret.err))
       ELSE IF Len(ret.result[1].Errors) > 0
       THEN Returns(Error(<<"parsing failed with %d errors, aborting transformation">>,
                          <<Len(ret.result[1].Errors)>>))
       ELSE IF Len(ret.result[1].Transactions) = 0
       THEN Returns(Error(<<"no transactions to transform">>, <<>>))
       ELSE CallsTransformToCSV

\* transform run, lines 95-104: TransformToCSV returned
TransformRunReturns ==
    /\ command = "transform"
    /\ tpc = "done"
    /\ cmdRet = <<>>
    /\ IF tret.err # NoError
       THEN Returns(Wrap("transforming to YNAB format", tret.err))
       ELSE Returns(NoError)

\* parser run, lines 85-100: validateFilePath and os.Open, then Parse is called
ParserRunOpens(valid, opened) ==
    /\ command = "parser"
    /\ pc = "idle"
    /\ cmdRet = <<>>
    /\ IF valid # NoError
       THEN Returns(valid)
       ELSE IF ~opened
       THEN Returns(Wrap("opening file", Error(<<"permission denied">>, <<>>)))
       ELSE CallsParse

\* parser run, lines 100-111: Parse returned; the table and the errors are
\* displayed and the command succeeds
ParserRunAfterParse ==
    /\ command = "parser"
    /\ pc = "done"
    /\ cmdRet = <<>>
    /\ IF ret.err # NoError
       THEN Returns(Wrap("parsing CSV", ret.err))
       ELSE /\ shown' = <<[Transactions |-> displayTable(ret.result[1]),
                           Errors |-> displayErrors(ret.result[1])]>>
            /\ cmdRet' = <<NoError>>
            /\ UNCHANGED <<elsewhere, parseVars, call, stream, firstRet, command, tpc,
                           transactions, ti, outputFile, tret>>

NextCmd ==
    \/ \E found, opened \in BOOLEAN : TransformRunOpens(found, opened)
    \/ \E valid \in validateFilePath : \E opened \in BOOLEAN : ParserRunOpens(valid, opened)
    \/ command = "transform" /\ Cancel /\ UNCHANGED callerVars
    \/ ParseCancelled /\ UNCHANGED callerVars
    \/ ParseEOF /\ UNCHANGED callerVars
    \/ \E empty \in 0..MaxEmptyLines : \E rec \in Rows :
          ParseRecord(empty, rec) /\ UNCHANGED callerVars
    \/ TransformRunAfterParse
    \/ CancelTransform
    \/ TransformToCSV
    \/ TransformRunReturns
    \/ ParserRunAfterParse

SpecCmd == InitCmd /\ [][NextCmd]_vars

---------------------------------------------------------------------------
(* Vocabulary of the properties *)

\* this step is a loop iteration in which csvReader.Read delivered a record
ReadsRow == lineNumber' = lineNumber + 1 /\ err' = "nil"

\* texts that are dates in the statement's M/D/YYYY format
DateTexts == {"1/5/2026", "1/28/2026", "1/29/2026"}

\* texts that are empty or whitespace
BlankTexts == {"", " "}

\* texts that are base-10 decimal numbers
NumberTexts == {"-10.00", "-10", "-8.44", "-8.03", "-0.16", "-1.5", "100.00",
                "0.00000", "1.00000", "1.18483"}

\* a data row that has all 8 columns, two dates, a payee and an amount
WellFormed(rec) ==
    /\ Len(rec) >= 8
    /\ rec[1] \in DateTexts
    /\ rec[2] \in DateTexts
    /\ rec[3] \notin BlankTexts
    /\ rec[7] \in NumberTexts

\* the last element of a non-empty sequence
Last(seq) == seq[Len(seq)]

\* the error Parse returns for a cancelled context
IsCancellation(e) == e # NoError /\ e.msg[1] = "parsing cancelled"

---------------------------------------------------------------------------
(* C1: Parse is lenient.  Parse returns an error only when it observed a     *)
(* cancellation; a row failure (too few columns, bad date, empty payee, bad  *)
(* amount) leaves Parse in its loop; when Parse returns without error it has *)
(* read the stream to its end (io.EOF) and returns the collected result; and *)
(* every well-formed data row read after a row failure is appended to the    *)
(* transactions with its own line, so that transactions are in stream order. *)
C1_ErrorOnlyOnCancellation ==
    pc = "done" /\ ret.err # NoError => ctxDone /\ IsCancellation(ret.err)

C1_ReadsToTheEnd ==
    pc = "done" /\ ret.err = NoError => err = "EOF" /\ ret.result = <<result>>

C1_RowFailureContinues ==
    Len(result'.Errors) > Len(result.Errors) => pc' = "loop" /\ ret' = ret

C1_WellFormedAfterFailureEmitted ==
    (ReadsRow /\ lineNumber' > metadataLines /\ result.Errors # <<>>
        /\ WellFormed(record'))
    => /\ Len(result'.Transactions) = Len(result.Transactions) + 1
       /\ SubSeq(result'.Transactions, 1, Len(result.Transactions)) = result.Transactions
       /\ Last(result'.Transactions).SourceLine = lineNumber'
       /\ result.Transactions # <<>> =>
            Last(result.Transactions).SourceLine < lineNumber'

C1_Lenient ==
    /\ []C1_ErrorOnlyOnCancellation
    /\ []C1_ReadsToTheEnd
    /\ [][C1_RowFailureContinues]_vars
    /\ [][C1_WellFormedAfterFailureEmitted]_vars

\* C1 witness: Parse returned without error a result in which a transaction
\* follows a row failure
C1_Witness ==
    /\ pc = "done"
    /\ ret.err = NoError
    /\ \E i \in DOMAIN result.Errors : \E j \in DOMAIN result.Transactions :
          result.Errors[i].Line < result.Transactions[j].SourceLine

---------------------------------------------------------------------------
(* C2: in every outcome Parse returns, the number of transactions plus the   *)
(* number of collected errors equals TotalRows.                              *)
C2_CountsAddUp ==
    ret.result # <<>> =>
        Len(ret.result[1].Transactions) + Len(ret.result[1].Errors)
            = ret.result[1].TotalRows

---------------------------------------------------------------------------
(* C3: cancellation is checked before every record is consumed.  A step     *)
(* taken by Parse while the context is done reads nothing (lineNumber, the   *)
(* stream position and record stay as they are) and returns a nil result    *)
(* with the cancellation error, whatever was parsed before.                  *)
C3_CancelledStep ==
    pc = "loop" /\ ctxDone
    => /\ pc' = "done"
       /\ ret'.result = <<>>
       /\ IsCancellation(ret'.err)
       /\ UNCHANGED <<lineNumber, physLine, record, err, result>>

C3_CancellationBeforeEveryRead == [][C3_CancelledStep]_vars

\* C3 witness: Parse returned the cancellation error and no result after it
\* had parsed rows successfully
C3_Witness ==
    /\ pc = "done"
    /\ IsCancellation(ret.err)
    /\ ret.result = <<>>
    /\ result.SuccessfulRows >= 2

---------------------------------------------------------------------------
(* C4: a read fault of the underlying reader (csvReader.Read returns an     *)
(* error that is not io.EOF) ends Parse with a hard error, and is not        *)
(* collected as a row error.                                                 *)
C4_ReadFaultAborts ==
    err = "io" =>
        /\ pc = "done"
        /\ ret.err # NoError
        /\ ret.result = <<>>
        /\ \A i \in DOMAIN result.Errors :
              result.Errors[i].Error.msg[1] # "csv read error"

---------------------------------------------------------------------------
(* C5: the first 4 physical lines of the stream are skipped whatever they   *)
(* hold, also when empty lines are among them: a row on physical line 1..4   *)
(* leaves the result alone, and a row on physical line 5 or later is never   *)
(* skipped as metadata, so a well-formed row there becomes a transaction.    *)
C5_PhysicalLineStep ==
    ReadsRow =>
        /\ physLine' <= 4 => result' = result
        /\ physLine' >= 5 /\ WellFormed(record') =>
              /\ Len(result'.Transactions) = Len(result.Transactions) + 1
              /\ Last(result'.Transactions).Payee = TrimSpace(record'[3])

C5_FirstFourPhysicalLines == [][C5_PhysicalLineStep]_vars

---------------------------------------------------------------------------
(* C6: after the metadata block, a row whose first field contains           *)
(* "Voucher date", met while no column-header row was skipped and no data    *)
(* row was processed yet, is skipped: the result stays as it is.  Blank rows *)
(* and Balance rows between the metadata block and that row change nothing.  *)
VoucherDateTexts == {"Voucher date", "Balance: Voucher date"}

C6_HeaderStep ==
    (ReadsRow /\ lineNumber' > metadataLines /\ ~columnHeaderSeen
        /\ result.TotalRows = 0 /\ record'[1] \in VoucherDateTexts)
    => result' = result

C6_ColumnHeaderSkipped == [][C6_HeaderStep]_vars

---------------------------------------------------------------------------
(* C7: a row whose trimmed first field starts with "Balance:" leaves the    *)
(* result alone (no transaction, no row error, TotalRows and SuccessfulRows  *)
(* as before) wherever it stands, and no row error holds such a row.         *)
BalanceTexts == {"Balance:", "Balance: Voucher date"}

C7_BalanceStep == ReadsRow /\ record'[1] \in BalanceTexts => result' = result

C7_NoBalanceRowError ==
    \A i \in DOMAIN result.Errors :
        result.Errors[i].Error.msg[1] # "csv read error"
            => result.Errors[i].Row[1] \notin BalanceTexts

C7_BalanceRowSkipped == [][C7_BalanceStep]_vars /\ []C7_NoBalanceRowError

\* C7 witness: a Balance row was read as a data-position row (after the
\* header was skipped and transactions were emitted) and as a metadata line
C7_Witness ==
    /\ err = "nil"
    /\ record = BalanceRow
    /\ lineNumber = 7
    /\ columnHeaderSeen
    /\ result.SuccessfulRows = 1
    /\ result.TotalRows = 1
    /\ result.Errors = <<>>

---------------------------------------------------------------------------
(* C8: a row with zero fields, or with one field that is empty or           *)
(* whitespace, leaves the result alone: no transaction, no row error,        *)
(* TotalRows and SuccessfulRows as before.                                   *)
C8_BlankStep ==
    (ReadsRow /\ (Len(record') = 0 \/ (Len(record') = 1 /\ record'[1] \in BlankTexts)))
    => result' = result

C8_BlankRowSkipped == [][C8_BlankStep]_vars

\* C8 witness: a whitespace row was read among the data rows
C8_Witness ==
    /\ err = "nil"
    /\ record = BlankRow
    /\ lineNumber > metadataLines + 1
    /\ headerSkipped
    /\ result.TotalRows = 1
    /\ Len(result.Transactions) + Len(result.Errors) = 1

---------------------------------------------------------------------------
(* C9: a data row (not metadata, not the column header, not blank, not a    *)
(* Balance row) with fewer than 8 fields adds exactly one row error          *)
(* "expected 8 columns, got N" with its line and its fields, adds one to     *)
(* TotalRows and changes nothing else; a data row with 8 or more fields gets *)
(* no column-count error.                                                    *)
IsDataRow ==
    /\ ReadsRow
    /\ lineNumber' > metadataLines
    /\ ~(~headerSkipped /\ record'[1] \in VoucherDateTexts)
    /\ ~(Len(record') = 1 /\ record'[1] \in BlankTexts)
    /\ record'[1] \notin BalanceTexts

ColumnCountError(n) == [msg |-> <<"expected %d columns, got %d">>, args |-> <<8, n>>]

C9_ColumnStep ==
    IsDataRow =>
        /\ Len(record') < 8 =>
              result' = [Transactions |-> result.Transactions,
                         Errors |-> Append(result.Errors,
                                      [Line |-> lineNumber', Row |-> record',
                                       Error |-> ColumnCountError(Len(record'))]),
                         TotalRows |-> result.TotalRows + 1,
                         SuccessfulRows |-> result.SuccessfulRows]
        /\ Len(record') >= 8 =>
              \/ Len(result'.Errors) = Len(result.Errors)
              \/ Last(result'.Errors).Error.msg # <<"expected %d columns, got %d">>

C9_ColumnCount == [][C9_ColumnStep]_vars

\* C9 witness: a 3-field row was rejected after a row was parsed
C9_Witness ==
    /\ err = "nil"
    /\ record = ShortRow
    /\ result.SuccessfulRows = 1
    /\ result.TotalRows = 2
    /\ result.Errors = <<[Line |-> lineNumber, Row |-> ShortRow,
                          Error |-> ColumnCountError(3)]>>

---------------------------------------------------------------------------
(* C10: every emitted transaction has a non-empty payee, a date, a posting  *)
(* date and an amount that are the values of the row's columns, and a        *)
(* non-empty currency, which is "EUR" when the row's currency column is      *)
(* empty or whitespace.                                                      *)
C10_EmittedFields ==
    \A i \in DOMAIN result.Transactions :
        LET t == result.Transactions[i]
        IN  /\ t.Payee \notin BlankTexts
            /\ t.Date # ZeroTime
            /\ t.PostingDate # ZeroTime
            /\ t.Currency \notin BlankTexts

C10_EmitStep ==
    Len(result'.Transactions) > Len(result.Transactions) =>
        LET t == Last(result'.Transactions)
        IN  /\ record'[1] \in DateTexts /\ t.Date = TimeParse(record'[1]).t
            /\ record'[2] \in DateTexts /\ t.PostingDate = TimeParse(record'[2]).t
            /\ record'[7] \in NumberTexts /\ t.Amount = ParseFloat(record'[7]).f
            /\ record'[8] \in BlankTexts => t.Currency = "EUR"

C10_EmittedTransactions == []C10_EmittedFields /\ [][C10_EmitStep]_vars

\* C10 witness: a row with a whitespace currency column was emitted with EUR
C10_Witness ==
    /\ err = "nil"
    /\ record = DefaultCurrencyRow
    /\ result.Transactions # <<>>
    /\ Last(result.Transactions).SourceLine = lineNumber
    /\ Last(result.Transactions).Currency = "EUR"
    /\ Last(result.Transactions).Payee = "Test"

---------------------------------------------------------------------------
(* Vocabulary of the derived fields *)

\* payees that contain the fee marker
FeeTexts == {"AUSLANDSEINSATZENTGELT", "1.75% AUSLANDSEINSATZENTGELT"}

\* this step reads a row and appends a transaction for it
Emits == ReadsRow /\ Len(result'.Transactions) = Len(result.Transactions) + 1

\* the row read last (the row just before the one this step reads) was
\* emitted as a transaction
PrecedingRowEmitted ==
    /\ err = "nil"
    /\ result.Transactions # <<>>
    /\ Last(result.Transactions).SourceLine = lineNumber

\* a transaction that carries a foreign currency and a foreign amount
IsForeign(t) == t.ForeignCurrency # "" /\ t.ForeignAmount # 0

\* a transaction without conversion
IsDomestic(t) == t.ForeignCurrency = ""

---------------------------------------------------------------------------
(* C11: fee association scope.  A fee row (payee contains                    *)
(* "AUSLANDSEINSATZENTGELT") emitted right after a foreign-currency          *)
(* transaction gets the memo "Fee for transaction: <payee of that            *)
(* transaction>"; a fee row emitted after a domestic transaction, or as the  *)
(* very first data row, gets an empty memo.                                  *)
C11_FeeStep ==
    Emits /\ record'[3] \in FeeTexts =>
        LET fee == Last(result'.Transactions)
        IN  /\ PrecedingRowEmitted /\ IsForeign(Last(result.Transactions)) =>
                  fee.Memo = <<"Fee for transaction: ", Last(result.Transactions).Payee>>
            /\ result.Transactions # <<>> /\ IsDomestic(Last(result.Transactions)) =>
                  fee.Memo = <<>>
            /\ result.TotalRows = 0 => fee.Memo = <<>>

---------------------------------------------------------------------------
(* C12: an emitted transaction has a non-empty memo only if it is a fee row *)
(* and the row read just before it was emitted as a foreign-currency         *)
(* transaction: no memo is given across a failed, blank or skipped row.      *)
C12_MemoStep ==
    Emits /\ Last(result'.Transactions).Memo # <<>> =>
        /\ record'[3] \in FeeTexts
        /\ PrecedingRowEmitted
        /\ IsForeign(Last(result.Transactions))

C12_MemoOnlyAfterForeignRow == [][C12_MemoStep]_vars

---------------------------------------------------------------------------
(* C13: occurrence counting.  The k-th emitted transaction, in stream       *)
(* order, with a given (milliunits, date) pair has the import ID             *)
(* "YNAB:<milliunits>:<YYYY-MM-DD>:k", k counted from 1: transactions with   *)
(* the same amount and date differ in the trailing counter only, and         *)
(* transactions with another amount or date have another key and do not      *)
(* advance the counter.                                                      *)
SameKey(t, u) ==
    Int64Times1000(t.Amount) = Int64Times1000(u.Amount) /\ t.Date = u.Date

\* how many of the first i transactions have the key of the i-th
OccurrenceOf(i) ==
    Cardinality({j \in 1..i : SameKey(result.Transactions[j], result.Transactions[i])})

C13_OccurrenceCounting ==
    /\ \A i \in DOMAIN result.Transactions :
          LET t == result.Transactions[i]
          IN  t.ImportID = <<"YNAB", Int64Times1000(t.Amount), FormatISO(t.Date),
                             OccurrenceOf(i)>>
    /\ \A i, j \in DOMAIN result.Transactions :
          LET t == result.Transactions[i]
              u == result.Transactions[j]
          IN  (t.Amount # u.Amount \/ t.Date # u.Date) =>
                  <<t.ImportID[2], t.ImportID[3]>> # <<u.ImportID[2], u.ImportID[3]>>

\* C13 witness: two transactions of -10.00 on 2026-01-05 got the counters 1
\* and 2, and a transaction with another key between them got the counter 1
C13_Witness ==
    /\ Len(result.Transactions) = 3
    /\ result.Transactions[1].ImportID = <<"YNAB", -10000, "2026-01-05", 1>>
    /\ result.Transactions[2].ImportID[2] # -10000
    /\ result.Transactions[2].ImportID[4] = 1
    /\ result.Transactions[3].ImportID = <<"YNAB", -10000, "2026-01-05", 2>>

---------------------------------------------------------------------------
(* C14: within one call of Parse the import IDs of the emitted transactions *)
(* are pairwise distinct, whatever rows the stream holds.                    *)
C14_ImportIDsDistinct ==
    \A i, j \in DOMAIN result.Transactions :
        i # j => result.Transactions[i].ImportID # result.Transactions[j].ImportID

\* C14 witness: two transactions with the same amount and the same date were
\* emitted, with a third transaction between them
C14_Witness ==
    /\ Len(result.Transactions) = 3
    /\ result.Transactions[1].Amount = result.Transactions[3].Amount
    /\ result.Transactions[1].Date = result.Transactions[3].Date
    /\ result.Transactions[1].ImportID # result.Transactions[3].ImportID
    /\ result.Transactions[2].Date # result.Transactions[1].Date

---------------------------------------------------------------------------
(* C16: the foreign fields of an emitted transaction are set only when the  *)
(* row's foreign-currency column is non-empty and differs from the           *)
(* settlement currency of that row; otherwise ForeignCurrency is empty and   *)
(* ForeignAmount and ExchangeRate are 0.  ExchangeRate is never negative.    *)
C16_ForeignStep ==
    Emits =>
        LET t == Last(result'.Transactions)
        IN  /\ (record'[4] \in BlankTexts \/ record'[4] = t.Currency) =>
                  /\ t.ForeignCurrency = ""
                  /\ t.ForeignAmount = 0
                  /\ t.ExchangeRate = 0
            /\ t.ExchangeRate >= 0

C16_ForeignFields == [][C16_ForeignStep]_vars

---------------------------------------------------------------------------
(* C17: a data row with all its columns whose exchange-rate column is       *)
(* neither empty nor a number adds a row error to the error list.            *)
C17_RateStep ==
    (IsDataRow /\ Len(record') >= 8 /\ record'[6] \notin (NumberTexts \cup BlankTexts))
    => Len(result'.Errors) = Len(result.Errors) + 1

C17_BadRateIsRowError == [][C17_RateStep]_vars

---------------------------------------------------------------------------
(* C18: the Line of every row error and the SourceLine of every emitted     *)
(* transaction is the 1-indexed line of the row in the stream, also when     *)
(* empty lines, which the csv reader drops, stand before it.                 *)
C18_LineStep ==
    /\ Len(result'.Errors) > Len(result.Errors) => Last(result'.Errors).Line = physLine'
    /\ Emits => Last(result'.Transactions).SourceLine = physLine'

C18_SourceLineIsStreamLine == [][C18_LineStep]_vars

---------------------------------------------------------------------------
(* C15: two calls of Parse on the same input return the same sequence of    *)
(* import IDs: the occurrence map starts empty in every call and the second  *)
(* call sees nothing of the first.                                           *)
ImportIDs(r) == [i \in DOMAIN r.Transactions |-> r.Transactions[i].ImportID]

C15_SameImportIDs ==
    (call = 2 /\ pc = "done") =>
        /\ ret.result # <<>>
        /\ firstRet[1].result # <<>>
        /\ ImportIDs(ret.result[1]) = ImportIDs(firstRet[1].result[1])

\* C15 witness: both calls returned, and the second call gave the occurrence
\* counter 2 to the second transaction of a key, as the first call did
C15_Witness ==
    /\ call = 2
    /\ pc = "done"
    /\ Len(ret.result[1].Transactions) >= 2
    /\ Last(ret.result[1].Transactions).ImportID[4] = 2
    /\ Last(firstRet[1].result[1].Transactions).ImportID[4] = 2

---------------------------------------------------------------------------
(* C20: TransformToCSV checks the context before it starts and before it    *)
(* writes each row.  A step it takes at such a check while the context is    *)
(* done returns a nil result and an error that wraps ctx.Err(), and writes   *)
(* nothing; nothing is written after it returned.  When the output file      *)
(* cannot be created it returns a nil result and an error that wraps the     *)
(* cause as "creating output file".                                          *)
IsTransformCancellation(e) ==
    /\ e # NoError
    /\ e.msg[1] \in {"transform cancelled", "transform cancelled at row %d"}
    /\ Last(e.msg) = "context canceled"

C20_CancelledStep ==
    (ctxDone /\ (tpc = "start" \/ (tpc = "rows" /\ ti < Len(transactions))))
    => /\ tpc' = "done"
       /\ tret'.result = <<>>
       /\ IsTransformCancellation(tret'.err)
       /\ outputFile' = outputFile

C20_ReturnedStep == tpc = "done" => outputFile' = outputFile /\ tret' = tret

C20_CreateFailedStep ==
    (tpc = "start" /\ ~ctxDone /\ tpc' = "done" /\ outputFile' = <<>>)
    => /\ tret'.result = <<>>
       /\ Len(tret'.err.msg) = 2
       /\ tret'.err.msg[1] = "creating output file"

C20_TransformCancellation ==
    /\ [][C20_CancelledStep]_vars
    /\ [][C20_ReturnedStep]_vars
    /\ [][C20_CreateFailedStep]_vars

\* C20 witness: TransformToCSV was cancelled before the second of three rows:
\* the file holds the header and one row
C20_Witness ==
    /\ tpc = "done"
    /\ ctxDone
    /\ Len(transactions) = 3
    /\ tret.result = <<>>
    /\ tret.err = Error(<<"transform cancelled at row %d", "context canceled">>, <<2>>)
    /\ outputFile = << <<csvHeaders, transactionToRow(transactions[1])>> >>

---------------------------------------------------------------------------
(* C19: dual strictness.  Parse decides nothing: it returns an error to     *)
(* either command only for a cancelled context, never for row errors.  The   *)
(* transform command, given an outcome with row errors, returns an error and *)
(* never calls TransformToCSV, so no output file is created.  The parser     *)
(* command displays the transactions and the row errors of the outcome and   *)
(* returns nil.                                                              *)
C19_ParseDecidesNothing ==
    pc = "done" =>
        IF ret.err # NoError
        THEN command = "transform" /\ ctxDone /\ IsCancellation(ret.err)
        ELSE ret.result = <<result>>

C19_TransformStrict ==
    (command = "transform" /\ pc = "done" /\ result.Errors # <<>>)
    => /\ tpc = "idle"
       /\ outputFile = <<>>
       /\ cmdRet # <<>> => cmdRet[1] # NoError

C19_ParserLenient ==
    (command = "parser" /\ pc = "done" /\ cmdRet # <<>>)
    => /\ cmdRet[1] = NoError
       /\ shown = <<[Transactions |-> displayTable(result),
                     Errors |-> displayErrors(result)]>>
       /\ Len(shown[1].Transactions) = Len(result.Transactions)
       /\ Len(shown[1].Errors) = Len(result.Errors)

C19_DualStrictness ==
    C19_ParseDecidesNothing /\ C19_TransformStrict /\ C19_ParserLenient

\* C19 witness: the transform command aborted on an outcome that holds two
\* transactions and one row error, without an output file
C19_Witness ==
    /\ command = "transform"
    /\ ret.err = NoError
    /\ Len(result.Transactions) = 2
    /\ Len(result.Errors) = 1
    /\ cmdRet = <<Error(<<"parsing failed with %d errors, aborting transformation">>, <<1>>)>>
    /\ tpc = "idle"
    /\ outputFile = <<>>

---------------------------------------------------------------------------
(* C21: when TransformToCSV returns without error for n transactions, the   *)
(* output file holds the header row Date,Payee,Memo,Amount and then exactly  *)
(* n rows, the i-th for the i-th transaction, and TransactionCount is n      *)
(* (only the header for n = 0); an empty payee and an empty memo are         *)
(* written as empty fields.                                                  *)
C21_TransformOutput ==
    (tpc = "done" /\ tret.err = NoError) =>
        /\ tret.result # <<>>
        /\ tret.result[1].TransactionCount = Len(transactions)
        /\ outputFile # <<>>
        /\ Len(outputFile[1]) = Len(transactions) + 1
        /\ outputFile[1][1] = <<"Date", "Payee", <<"Memo">>, "Amount">>
        /\ \A i \in DOMAIN transactions :
              LET row == outputFile[1][i + 1]
              IN  /\ Len(row) = 4
                  /\ row[1] = FormatYNAB(transactions[i].Date)
                  /\ row[2] = transactions[i].Payee
                  /\ row[3] = transactions[i].Memo
                  /\ row[4] = Sprintf2f(transactions[i].Amount)

\* C21 witness: three transactions were written, among them one with an
\* empty payee and an empty memo and one with a memo
C21_Witness ==
    /\ tpc = "done"
    /\ tret.err = NoError
    /\ Len(transactions) = 3
    /\ Len(outputFile[1]) = 4
    /\ outputFile[1][2][2] = ""
    /\ outputFile[1][2][3] = <<>>
    /\ outputFile[1][4][3] # <<>>

---------------------------------------------------------------------------
(* C22: empty input.  When the stream ends after its 4 metadata lines and    *)
(* the column-header row, Parse returns no error and a non-nil result with   *)
(* no transactions, no row errors, TotalRows = 0 and SuccessfulRows = 0.     *)
C22_EmptyInput ==
    (pc = "done" /\ err = "EOF" /\ physLine = 5 /\ lineNumber = 6 /\ columnHeaderSeen)
    => /\ ret.err = NoError
       /\ ret.result = <<[Transactions |-> <<>>, Errors |-> <<>>,
                          TotalRows |-> 0, SuccessfulRows |-> 0]>>

\* C22 witness: Parse returned after 4 metadata lines, the header row and the
\* end of the stream
C22_Witness ==
    /\ pc = "done"
    /\ err = "EOF"
    /\ physLine = 5
    /\ lineNumber = 6
    /\ columnHeaderSeen
    /\ ret.result # <<>>
    /\ ret.result[1].TotalRows = 0

(* ------------------------------------------------------------------------ *)
(* C28: a read that emits no transaction (a skipped row, a failed row, a    *)
(* read error, the end of the stream) leaves the occurrence map and the     *)
(* remembered previous transaction unchanged.  So the map counts the        *)
(* emitted transactions of every key, the counters of a key are exactly     *)
(* 1..n over the emitted transactions, and the previous transaction is the  *)
(* last emitted one.                                                        *)
(* ------------------------------------------------------------------------ *)

\* the emitted transactions that have the key k
EmittedWithKey(k) == {i \in DOMAIN result.Transactions : baseKey(result.Transactions[i]) = k}

C28_NoEmitStep ==
    (lineNumber' = lineNumber + 1 /\ result'.Transactions = result.Transactions)
        => occurrenceMap' = occurrenceMap /\ previousTransaction' = previousTransaction

C28_MapCountsEmitted ==
    /\ DOMAIN occurrenceMap = {baseKey(result.Transactions[i]) : i \in DOMAIN result.Transactions}
    /\ \A k \in DOMAIN occurrenceMap :
          /\ occurrenceMap[k] = Cardinality(EmittedWithKey(k))
          /\ {result.Transactions[i].ImportID[4] : i \in EmittedWithKey(k)} = 1..occurrenceMap[k]
    /\ previousTransaction =
          IF result.Transactions = <<>> THEN <<>> ELSE <<Last(result.Transactions)>>

C28_FailedRowsLeaveState == [][C28_NoEmitStep]_vars /\ []C28_MapCountsEmitted

\* C28 witness: a row failed between two emitted transactions of the same key,
\* which got the counters 1 and 2, and the second one is the previous transaction
C28_Witness ==
    /\ Len(result.Transactions) = 2
    /\ Len(result.Errors) = 1
    /\ result.Transactions[1].SourceLine < result.Errors[1].Line
    /\ result.Errors[1].Line < result.Transactions[2].SourceLine
    /\ baseKey(result.Transactions[1]) = baseKey(result.Transactions[2])
    /\ result.Transactions[1].ImportID[4] = 1
    /\ result.Transactions[2].ImportID[4] = 2
    /\ occurrenceMap[baseKey(result.Transactions[2])] = 2
    /\ previousTransaction = <<result.Transactions[2]>>

(* ------------------------------------------------------------------------ *)
(* C29: in every state of a Parse call and in the returned outcome,         *)
(* SuccessfulRows is the number of emitted transactions, SuccessfulRows <=  *)
(* TotalRows, no step decreases a counter, and the transactions and the     *)
(* errors are each in strictly increasing order of their source line.       *)
(* ------------------------------------------------------------------------ *)
CountersAndOrder(r) ==
    /\ r.SuccessfulRows = Len(r.Transactions)
    /\ r.SuccessfulRows <= r.TotalRows
    /\ \A i, j \in DOMAIN r.Transactions :
          i < j => r.Transactions[i].SourceLine < r.Transactions[j].SourceLine
    /\ \A i, j \in DOMAIN r.Errors : i < j => r.Errors[i].Line < r.Errors[j].Line

C29_State ==
    /\ CountersAndOrder(result)
    /\ (pc = "done" /\ ret.result # <<>>) => CountersAndOrder(ret.result[1])

C29_CounterStep ==
    /\ result'.TotalRows >= result.TotalRows
    /\ result'.SuccessfulRows >= result.SuccessfulRows

C29_CountersAndOrder == []C29_State /\ [][C29_CounterStep]_vars

\* C29 witness: a returned outcome with one transaction between two errors
C29_Witness ==
    /\ pc = "done"
    /\ ret.result # <<>>
    /\ ret.result[1].SuccessfulRows = 1
    /\ ret.result[1].TotalRows = 3
    /\ Len(ret.result[1].Errors) = 2
    /\ ret.result[1].Errors[1].Line < ret.result[1].Transactions[1].SourceLine
    /\ ret.result[1].Transactions[1].SourceLine < ret.result[1].Errors[2].Line

(* ======================================================================== *)
(* The REST client's import IDs (package ynab of internal/client, types.go) *)
(* ======================================================================== *)

\* the width of the modelled int64: the two's-complement arithmetic of the
\* code is kept, on IntBits bits instead of 64
IntBits == 8

\* the occurrence numbers GenerateImportID is called with
MaxOccurrence == 2

\* math.MinInt64 and math.MaxInt64 at the modelled width
MinInt64 == -(2 ^ (IntBits - 1))
MaxInt64 == 2 ^ (IntBits - 1) - 1
Int64s == MinInt64..MaxInt64

\* the int64 that holds the integer x: the arithmetic wraps around
WrapInt64(x) == ((x - MinInt64) % (2 ^ IntBits)) + MinInt64

\* byte('0' + d) for a digit d
DigitChar(d) == <<"0", "1", "2", "3", "4", "5", "6", "7", "8", "9">>[d + 1]

\* formatInt64, lines 218-221: for n > 0 { digits = prepend('0' + n%10); n /= 10 }
RECURSIVE formatInt64Digits(_, _)
formatInt64Digits(n, digits) ==
    IF n > 0
    THEN formatInt64Digits(n \div 10, <<DigitChar(n % 10)>> \o digits)
    ELSE digits

\* formatInt64, lines 207-228 (n = -n wraps around for the smallest int64)
formatInt64(n) ==
    IF n = 0 THEN <<"0">>
    ELSE LET negative == n < 0
             m == IF negative THEN WrapInt64(-n) ELSE n
             digits == formatInt64Digits(m, <<>>)
         IN  IF negative THEN <<"-">> \o digits ELSE digits

\* GenerateImportID, lines 202-204: "YNAB:" + amount + ":" + date + ":" + occurrence
GenerateImportID(amount, date, occurrence) ==
    <<"YNAB", formatInt64(amount), FormatISO(date), formatInt64(WrapInt64(occurrence))>>

\* the dates GenerateImportID is called with
ClientDates == {<<2026, 1, 5>>, <<2026, 1, 28>>, <<2026, 1, 29>>}

\* everything but the state of the REST client and of package log
parseAndCallers == <<parseVars, call, stream, firstRet, command, cmdRet, shown, tpc, transactions, ti, outputFile, tret, readerBroken, other>>

\* a call of GenerateImportID
CallsGenerateImportID(amount, date, occurrence) ==
    /\ generated = <<>>
    /\ generated' = <<[amount |-> amount, date |-> date, occurrence |-> occurrence,
                       id |-> GenerateImportID(amount, date, occurrence)]>>
    /\ UNCHANGED <<parseAndCallers, requests, clientRet, logVars>>

\* no call of Parse, of a command, of the client or of package log has been made
InitIdle ==
    /\ pc = "idle"
    /\ ctxDone = FALSE
    /\ ParseStarts
    /\ NoCaller

NextImportID ==
    \E amount \in Int64s : \E date \in ClientDates : \E occurrence \in 1..MaxOccurrence :
        CallsGenerateImportID(amount, date, occurrence)

SpecImportID == InitIdle /\ [][NextImportID]_vars

\* the base-10 text of a natural number
RECURSIVE Base10Digits(_)
Base10Digits(n) ==
    IF n < 10 THEN <<DigitChar(n)>> ELSE Base10Digits(n \div 10) \o <<DigitChar(n % 10)>>

\* the base-10 text of an integer, what fmt.Sprintf("%d", n) gives
Base10(n) == IF n < 0 THEN <<"-">> \o Base10Digits(-n) ELSE Base10Digits(n)

(* ------------------------------------------------------------------------ *)
(* C30: for every int64 amount, date and occurrence GenerateImportID        *)
(* returns "YNAB:<amount in base 10>:<YYYY-MM-DD>:<occurrence in base 10>", *)
(* the format of the parser's generateImportID: formatInt64(n) is the       *)
(* base-10 text of n, also for 0, negative n and the smallest int64.        *)
(* ------------------------------------------------------------------------ *)
C30_Base10ImportID ==
    generated # <<>> =>
        LET g == generated[1]
        IN  g.id = <<"YNAB", Base10(g.amount), FormatISO(g.date), Base10(g.occurrence)>>

\* the same for every amount but the smallest int64
C30_Base10AboveMinInt64 ==
    (generated # <<>> /\ generated[1].amount # MinInt64) =>
        LET g == generated[1]
        IN  g.id = <<"YNAB", Base10(g.amount), FormatISO(g.date), Base10(g.occurrence)>>

\* the smallest int64 is formatted as "-"
C30_MinInt64IsMinusSign ==
    (generated # <<>> /\ generated[1].amount = MinInt64) => generated[1].id[2] = <<"-">>

(* ======================================================================== *)
(* The REST client (package ynab of internal/client)                        *)
(* ======================================================================== *)

\* how many requests the client sends in a run of the model
MaxRequests == 2

\* errors.go, lines 8-19: the sentinel errors
ErrNotFound == Error(<<"resource not found">>, <<>>)
ErrUnauthorized == Error(<<"unauthorized">>, <<>>)
ErrRateLimited == Error(<<"rate limit exceeded">>, <<>>)
ErrBadRequest == Error(<<"bad request">>, <<>>)
ErrConflict == Error(<<"conflict">>, <<>>)
Sentinels == {ErrNotFound, ErrUnauthorized, ErrRateLimited, ErrBadRequest, ErrConflict}

\* errors.Is(e, target) for a sentinel target: some error of e's chain is the
\* target.  Wrapping with %w puts the wrapped error's messages behind the
\* wrapper's, so the chain of e is the suffixes of e.msg
ErrorsIs(e, target) ==
    \E i \in 1..Len(e.msg) : SubSeq(e.msg, i, Len(e.msg)) = target.msg

\* errors.go, lines 23-32: an *APIError as an error value; it wraps nothing
APIErrorValue(apiErr) ==
    Error(<<"ynab api error [%s]: %s - %s">>, <<apiErr.ID, apiErr.Name, apiErr.Detail>>)

\* what resty decodes the body of an error response into: the zero APIError
\* when the body is no JSON error document
APIErrors ==
    {[ID |-> "", Name |-> "", Detail |-> ""],
     [ID |-> "409", Name |-> "conflict", Detail |-> "import_id already exists"]}

\* the status codes the server answers with
StatusCodes == {200, 201, 400, 401, 403, 404, 409, 418, 429, 500, 503}

\* resty's Response.IsError: the status code is above 399
IsError(statusCode) == statusCode > 399

\* mutant of mapHTTPStatusToError: 403 has no case and falls to the default branch
mapHTTPStatusToErrorNo403(statusCode, apiErr) ==
    LET baseErr == CASE statusCode = 400 -> <<ErrBadRequest>>
                     [] statusCode = 401 -> <<ErrUnauthorized>>
                     [] statusCode = 404 -> <<ErrNotFound>>
                     [] statusCode = 409 -> <<ErrConflict>>
                     [] statusCode = 429 -> <<ErrRateLimited>>
                     [] OTHER -> <<>>
    IN  IF baseErr = <<>>
        THEN IF apiErr # <<>> THEN APIErrorValue(apiErr[1])
             ELSE Error(<<"unexpected status code: %d">>, <<statusCode>>)
        ELSE IF apiErr # <<>>
             THEN Error(<<"%w: %s">> \o baseErr[1].msg, <<apiErr[1].Detail>>)
             ELSE baseErr[1]

\* errors.go, lines 40-69: apiErr is <<>> (nil) or <<the APIError pointed to>>
mapHTTPStatusToError(statusCode, apiErr) ==
    LET baseErr == CASE statusCode = 400 -> <<ErrBadRequest>>
                     [] statusCode = 401 -> <<ErrUnauthorized>>
                     [] statusCode = 403 -> <<ErrUnauthorized>>
                     [] statusCode = 404 -> <<ErrNotFound>>
                     [] statusCode = 409 -> <<ErrConflict>>
                     [] statusCode = 429 -> <<ErrRateLimited>>
                     [] OTHER -> <<>>
    IN  IF baseErr = <<>>
        THEN IF apiErr # <<>> THEN APIErrorValue(apiErr[1])
             ELSE Error(<<"unexpected status code: %d">>, <<statusCode>>)
        ELSE IF apiErr # <<>>
             THEN Error(<<"%w: %s">> \o baseErr[1].msg, <<apiErr[1].Detail>>)
             ELSE baseErr[1]

\* the error of the HTTP client when no response arrives
transportError == Error(<<"connection refused">>, <<>>)

\* the common part of the client's operations: the request is handed to the
\* HTTP client; without a response the transport error is wrapped, an error
\* status is mapped by mapHTTPStatusToError(resp.StatusCode(), &errResp.Error),
\* otherwise the decoded result is returned
roundTrip(op, input, request, wrapMsg, answered, statusCode, apiErr, decoded) ==
    /\ Len(requests) < MaxRequests
    /\ requests' = Append(requests, request)
    /\ clientRet' =
          IF ~answered
          THEN [op |-> op, input |-> input, status |-> <<>>, result |-> <<>>,
                err |-> Wrap(wrapMsg, transportError)]
          ELSE IF IsError(statusCode)
          THEN [op |-> op, input |-> input, status |-> <<statusCode>>, result |-> <<>>,
                err |-> mapHTTPStatusToError(statusCode, <<apiErr>>)]
          ELSE [op |-> op, input |-> input, status |-> <<statusCode>>,
                result |-> <<decoded>>, err |-> NoError]
    /\ UNCHANGED <<parseAndCallers, generated, logVars>>

\* GetAccounts
GetAccounts(answered, statusCode, apiErr) ==
    roundTrip("GetAccounts", <<>>, <<"GET", "/budgets/b/accounts">>, "fetching accounts", answered, statusCode, apiErr, "accounts")

\* GetTransactions
GetTransactions(answered, statusCode, apiErr) ==
    roundTrip("GetTransactions", <<>>, <<"GET", "/budgets/b/transactions">>, "fetching transactions", answered, statusCode, apiErr, "transactions")

\* GetTransactionsByAccount
GetTransactionsByAccount(answered, statusCode, apiErr) ==
    roundTrip("GetTransactionsByAccount", <<"a">>, <<"GET", "/budgets/b/accounts/a/transactions">>, "fetching account transactions", answered, statusCode, apiErr, "transactions")

\* createTransactionsInternal
createTransactionsInternal(op, input, answered, statusCode, apiErr) ==
    roundTrip(op, input, <<"POST", "/budgets/b/transactions">>, "creating transactions", answered, statusCode, apiErr, "transaction_ids")

\* CreateTransaction
CreateTransaction(transaction, answered, statusCode, apiErr) ==
    createTransactionsInternal("CreateTransaction", <<transaction>>, answered, statusCode, apiErr)

\* mutant of noTransactions: the list is not tested
noTransactionsUntested(list) == FALSE

\* CreateTransactions: len(transactions) == 0
noTransactions(list) == Len(list) = 0

\* CreateTransactions
CreateTransactions(list, answered, statusCode, apiErr) ==
    IF noTransactions(list)
    THEN /\ clientRet' = [op |-> "CreateTransactions", input |-> list, status |-> <<>>,
                          result |-> <<>>,
                          err |-> Error(<<"at least one transaction is required">>, <<>>)]
         /\ UNCHANGED <<parseAndCallers, requests, generated, logVars>>
    ELSE createTransactionsInternal("CreateTransactions", list, answered, statusCode, apiErr)

\* the lists CreateTransactions is called with
SaveTransactionLists == {<<>>, <<"YNAB:-10000:2026-01-20:1">>, <<"YNAB:-10000:2026-01-20:1", "YNAB:-10000:2026-01-20:2">>}

NextClient ==
    \E answered \in BOOLEAN : \E statusCode \in StatusCodes : \E apiErr \in APIErrors :
        \/ GetAccounts(answered, statusCode, apiErr)
        \/ GetTransactions(answered, statusCode, apiErr)
        \/ GetTransactionsByAccount(answered, statusCode, apiErr)
        \/ CreateTransaction("YNAB:-10000:2026-01-20:1", answered, statusCode, apiErr)
        \/ \E list \in SaveTransactionLists :
              CreateTransactions(list, answered, statusCode, apiErr)

SpecClient == InitIdle /\ [][NextClient]_vars

(* ------------------------------------------------------------------------ *)
(* C24: CreateTransactions with an empty list returns a nil result and the  *)
(* error "at least one transaction is required", and sends no request.      *)
(* ------------------------------------------------------------------------ *)
C24_EmptyListReturn ==
    (clientRet.op = "CreateTransactions" /\ clientRet.input = <<>>) =>
        /\ clientRet.result = <<>>
        /\ clientRet.err = [msg |-> <<"at least one transaction is required">>, args |-> <<>>]

C24_EmptyListStep ==
    (clientRet'.op = "CreateTransactions" /\ clientRet'.input = <<>>) => requests' = requests

C24_EmptyListRejected == []C24_EmptyListReturn /\ [][C24_EmptyListStep]_vars

\* C24 witness: after a request was sent, CreateTransactions was called with an
\* empty list and returned the error
C24_Witness ==
    /\ clientRet.op = "CreateTransactions"
    /\ clientRet.input = <<>>
    /\ clientRet.err.msg = <<"at least one transaction is required">>
    /\ Len(requests) = 1

(* ------------------------------------------------------------------------ *)
(* C25: an operation that receives an error status returns a nil result and *)
(* an error that matches exactly the sentinel of the status: 400            *)
(* ErrBadRequest, 401 and 403 ErrUnauthorized, 404 ErrNotFound, 409         *)
(* ErrConflict, 429 ErrRateLimited, and no sentinel for another status.     *)
(* ------------------------------------------------------------------------ *)
SentinelTexts(statusCode) ==
    CASE statusCode = 400 -> {"bad request"}
      [] statusCode \in {401, 403} -> {"unauthorized"}
      [] statusCode = 404 -> {"resource not found"}
      [] statusCode = 409 -> {"conflict"}
      [] statusCode = 429 -> {"rate limit exceeded"}
      [] OTHER -> {}

C25_StatusToSentinel ==
    (clientRet.status # <<>> /\ clientRet.status[1] >= 400) =>
        /\ clientRet.result = <<>>
        /\ clientRet.err # NoError
        /\ {s.msg[1] : s \in {t \in Sentinels : ErrorsIs(clientRet.err, t)}}
              = SentinelTexts(clientRet.status[1])

\* C25 witness: CreateTransactions got 409 for a duplicate import ID
C25_Witness ==
    /\ clientRet.op = "CreateTransactions"
    /\ clientRet.status = <<409>>
    /\ clientRet.result = <<>>
    /\ ErrorsIs(clientRet.err, ErrConflict)
    /\ clientRet.err.args = <<"import_id already exists">>

\* a status without a sentinel reached a caller too
C25_OtherStatusReached == clientRet.op = "GetAccounts" /\ clientRet.status = <<503>>

(* ======================================================================== *)
(* Package log (internal/log/logger.go): the process-wide logger            *)
(* ======================================================================== *)

\* the formats and levels SetupLogging is called with
LogFormats == {"json", "console", "xml"}
LogLevels == {"debug", "info", "warning", "warn", "error", "loud"}

\* parseLogFormat, lines 156-163
parseLogFormat(format) == IF format # "json" /\ format # "console" THEN "json" ELSE format

\* parseMinLogLevel, lines 138-154: the zapcore level
parseMinLogLevel(minLogLevel) ==
    CASE minLogLevel = "debug" -> "DebugLevel"
      [] minLogLevel = "info" -> "InfoLevel"
      [] minLogLevel \in {"warning", "warn"} -> "WarnLevel"
      [] minLogLevel = "error" -> "ErrorLevel"
      [] OTHER -> "InfoLevel"

\* getConfig, lines 109-127: the encoding of the built logger
getConfig(encoding, minLogLevel) ==
    [encoding |-> IF encoding = "console" THEN "console" ELSE "json",
     level |-> minLogLevel, name |-> ""]

\* setupNewLogger, lines 98-107: built says whether loggerConfig.Build() succeeds
setupNewLogger(encoding, minLogLevel, built) ==
    IF built
    THEN [logger |-> <<getConfig(encoding, parseMinLogLevel(minLogLevel))>>, err |-> NoError]
    ELSE [logger |-> <<>>,
          err |-> Error(<<"could not build a logger from the config: %v">>, <<"build">>)]

\* getLoggerNameForType(loggerNameRoot), lines 180-188
getLoggerNameForType == "com.github.moneypenny"

\* (*zap.SugaredLogger).Named
Named(logger, name) == [logger EXCEPT !.name = name]

\* the process has not been ended by log.Fatal
logRunning == logRet.op # "Fatal"

\* mutant of alreadySetup: the global logger is not tested
alreadySetupUntested == FALSE

\* line 70: globalLogger != nil
alreadySetup == globalLogger # <<>>

\* SetupLogging, lines 69-81
SetupLogging(format, level, built) ==
    /\ logRunning
    /\ IF alreadySetup
       THEN /\ logRet' = [op |-> "SetupLogging", config |-> <<format, level>>, err |-> NoError,
                        logger |-> <<>>]
            /\ UNCHANGED globalLogger
       ELSE LET new == setupNewLogger(parseLogFormat(format), level, built)
            IN  /\ globalLogger' = new.logger
                /\ logRet' = [op |-> "SetupLogging", config |-> <<format, level>>,
                            err |-> new.err, logger |-> <<>>]
    /\ UNCHANGED <<parseAndCallers, clientVars, defaultLogger, defaultBuilds>>

\* GetLogger, lines 90-92, with getGlobalLogger, lines 165-178
GetLogger(built) ==
    /\ logRunning
    /\ IF defaultLogger = <<>> /\ globalLogger = <<>>
       THEN LET new == setupNewLogger("json", "info", built)
            IN  /\ defaultLogger' = new.logger
                /\ defaultBuilds' = defaultBuilds + (IF built THEN 1 ELSE 0)
                /\ logRet' = IF new.err # NoError
                             THEN [op |-> "Fatal", config |-> <<>>, err |-> new.err, logger |-> <<>>]
                             ELSE [op |-> "GetLogger", config |-> <<>>, err |-> NoError,
                                   logger |-> <<Named(new.logger[1], getLoggerNameForType)>>]
       ELSE /\ UNCHANGED <<defaultLogger, defaultBuilds>>
            /\ logRet' = [op |-> "GetLogger", config |-> <<>>, err |-> NoError,
                          logger |-> <<Named((IF globalLogger = <<>> THEN defaultLogger
                                              ELSE globalLogger)[1],
                                             getLoggerNameForType)>>]
    /\ UNCHANGED <<parseAndCallers, clientVars, globalLogger>>

NextLog ==
    \/ \E format \in LogFormats : \E level \in LogLevels : \E built \in BOOLEAN :
          SetupLogging(format, level, built)
    \/ \E built \in BOOLEAN : GetLogger(built)

SpecLog == InitIdle /\ [][NextLog]_vars

(* ------------------------------------------------------------------------ *)
(* C26: once SetupLogging has succeeded, every later SetupLogging leaves    *)
(* the global logger unchanged and returns no error, every later GetLogger  *)
(* returns the configured logger, and the default logger is built at most   *)
(* once.                                                                    *)
(* ------------------------------------------------------------------------ *)
C26_AfterSetupStep ==
    globalLogger # <<>> =>
        /\ globalLogger' = globalLogger
        /\ logRet'.op = "SetupLogging" => logRet'.err = NoError
        /\ logRet'.op = "GetLogger" =>
              /\ logRet'.logger # <<>>
              /\ logRet'.logger[1].encoding = globalLogger[1].encoding
              /\ logRet'.logger[1].level = globalLogger[1].level
        /\ logRet'.op # "Fatal"
        /\ defaultBuilds' = defaultBuilds

C26_InitOnce == [](defaultBuilds <= 1) /\ [][C26_AfterSetupStep]_vars

\* C26 witness: the default logger was built before SetupLogging configured the
\* console logger at debug level, and a later GetLogger returned the configured one
C26_Witness ==
    /\ defaultBuilds = 1
    /\ globalLogger # <<>>
    /\ globalLogger[1].encoding = "console"
    /\ globalLogger[1].level = "DebugLevel"
    /\ logRet.op = "GetLogger"
    /\ logRet.logger[1].encoding = "console"
    /\ logRet.logger[1].level = "DebugLevel"

(* ======================================================================== *)
(* Parse on a reader that may fail for good                                 *)
(* ======================================================================== *)

\* the io.Reader under the csv reader breaks: every later Read returns an
\* error that is not io.EOF (a closed file, a directory, a lost connection)
ReaderBreaks ==
    /\ pc = "loop"
    /\ ~readerBroken
    /\ readerBroken' = TRUE
    /\ UNCHANGED <<parseVars, call, stream, firstRet, command, cmdRet, shown, tpc, transactions, ti, outputFile, tret, other, clientVars, logVars>>

\* lines 109-117 on a broken reader: bufio hands the reader's error out once
\* and asks the reader again on the next call, so every csvReader.Read returns
\* the error; the loop records it and continues.  Past MaxReads reads the
\* model no longer counts the reads and the recorded errors: the state stands
\* for all the later ones
ParseReadErrorAgain(part) ==
    /\ pc = "loop"
    /\ ~cancellationObserved
    /\ readerBroken
    /\ record' = part
    /\ err' = "io"
    /\ IF lineNumber < MaxReads
       THEN /\ physLine' = physLine + 1
            /\ lineNumber' = lineNumber + 1
            /\ result' = [result EXCEPT !.Errors =
                            Append(@, ParseError(lineNumber', part,
                                      Wrap("csv read error", Error(<<"read fault">>, <<>>))))]
       ELSE UNCHANGED <<physLine, lineNumber, result>>
    /\ UNCHANGED <<pc, ctxDone, headerSkipped, occurrenceMap, previousTransaction,
                   ret, columnHeaderSeen>>

\* one iteration of Parse's loop, on a reader that works or is broken
ParseLoop ==
    \/ ~readerBroken /\ ParseEOF /\ UNCHANGED callerVars
    \/ \E empty \in 0..MaxEmptyLines : \E rec \in Rows :
          ~readerBroken /\ ParseRecord(empty, rec) /\ UNCHANGED callerVars
    \/ \E empty \in 0..MaxEmptyLines : \E part \in PartialRows :
          ~readerBroken /\ ParseReadError(empty, part) /\ UNCHANGED callerVars
    \/ \E part \in PartialRows : ParseReadErrorAgain(part) /\ UNCHANGED callerVars

\* a call of Parse that is not cancelled
InitFair ==
    /\ pc = "loop"
    /\ ctxDone = FALSE
    /\ ParseStarts
    /\ NoCaller

NextFair == ReaderBreaks \/ ParseLoop

\* the goroutine that runs Parse is scheduled again and again: an iteration
\* that can be taken is taken
SpecFair == InitFair /\ [][NextFair]_vars /\ WF_vars(ParseLoop)

(* ------------------------------------------------------------------------ *)
(* C27: a call of Parse that is not cancelled returns after finitely many   *)
(* steps on every finite input, also when reads of the underlying reader    *)
(* return errors.                                                           *)
(* ------------------------------------------------------------------------ *)
C27_ParseTerminates == <>(pc = "done")

\* Parse returns whenever the reader does not break for good: read errors
\* that pass do not stop it
C27_TerminatesUnlessBroken == <>(pc = "done" \/ readerBroken)

\* on a broken reader Parse never returns
C27_BrokenReaderSpins == [](readerBroken => [](pc = "loop"))

(* ======================================================================== *)
(* Two calls of Parse that run concurrently, each on its own stream         *)
(* ======================================================================== *)

\* the records of the two streams: whitespace rows for the metadata block,
\* then a foreign transaction, its fee and a row that fails
PairRows == {ForeignRow, FeeRow, BadDateRow}
PairRowsAt(line) == IF line <= metadataLines THEN {BlankRow} ELSE PairRows

\* lines 84-92: the locals of the call of Parse that does not run now, before
\* its first iteration, with the records it has read; interleaved says that
\* the scheduler has switched while both calls were in the middle of their stream
OtherStarts ==
    [pc |-> "loop", physLine |-> 0, lineNumber |-> 0, headerSkipped |-> FALSE,
     record |-> <<>>, err |-> "none", result |-> ParseResult(<<>>, <<>>, 0, 0),
     occurrenceMap |-> [k \in {} |-> 0], previousTransaction |-> <<>>,
     ret |-> [result |-> <<>>, err |-> NoError], columnHeaderSeen |-> FALSE,
     stream |-> <<>>, interleaved |-> FALSE]

\* two calls of Parse have started, neither is cancelled
InitPair ==
    /\ pc = "loop"
    /\ ctxDone = FALSE
    /\ ParseStarts
    /\ FirstCall
    /\ command = "none"
    /\ cmdRet = <<>>
    /\ shown = <<>>
    /\ NoTransform
    /\ readerBroken = FALSE
    /\ other = OtherStarts
    /\ NoClient
    /\ NoLogger

\* mutant of Switch: the occurrence map is one package-level map, which the
\* two calls share
SwitchSharedMap ==
    /\ call = 1
    /\ other.pc = "loop"
    /\ pc' = other.pc
    /\ physLine' = other.physLine
    /\ lineNumber' = other.lineNumber
    /\ headerSkipped' = other.headerSkipped
    /\ record' = other.record
    /\ err' = other.err
    /\ result' = other.result
    /\ previousTransaction' = other.previousTransaction
    /\ ret' = other.ret
    /\ columnHeaderSeen' = other.columnHeaderSeen
    /\ stream' = other.stream
    /\ other' = [pc |-> pc, physLine |-> physLine, lineNumber |-> lineNumber,
                 headerSkipped |-> headerSkipped, record |-> record, err |-> err,
                 result |-> result, occurrenceMap |-> other.occurrenceMap,
                 previousTransaction |-> previousTransaction, ret |-> ret,
                 columnHeaderSeen |-> columnHeaderSeen, stream |-> stream,
                 interleaved |-> other.interleaved
                                    \/ (lineNumber > 0 /\ other.lineNumber > 0)]
    /\ UNCHANGED <<ctxDone, occurrenceMap, call, firstRet, command, cmdRet, shown, tpc, transactions, ti, outputFile, tret, readerBroken, clientVars, logVars>>

\* the scheduler suspends the running call between two iterations of its loop
\* and resumes the other one.  Everything Parse works on is a local of the
\* call (lines 78-92: csvReader, result, lineNumber, headerSkipped,
\* previousTransaction, occurrenceMap) and the package has no variable, so
\* each call finds its own state again
Switch ==
    /\ call = 1
    /\ other.pc = "loop"
    /\ pc' = other.pc
    /\ physLine' = other.physLine
    /\ lineNumber' = other.lineNumber
    /\ headerSkipped' = other.headerSkipped
    /\ record' = other.record
    /\ err' = other.err
    /\ result' = other.result
    /\ occurrenceMap' = other.occurrenceMap
    /\ previousTransaction' = other.previousTransaction
    /\ ret' = other.ret
    /\ columnHeaderSeen' = other.columnHeaderSeen
    /\ stream' = other.stream
    /\ other' = [pc |-> pc, physLine |-> physLine, lineNumber |-> lineNumber,
                 headerSkipped |-> headerSkipped, record |-> record, err |-> err,
                 result |-> result, occurrenceMap |-> occurrenceMap,
                 previousTransaction |-> previousTransaction, ret |-> ret,
                 columnHeaderSeen |-> columnHeaderSeen, stream |-> stream,
                 interleaved |-> other.interleaved
                                    \/ (lineNumber > 0 /\ other.lineNumber > 0)]
    /\ UNCHANGED <<ctxDone, call, firstRet, command, cmdRet, shown, tpc, transactions, ti, outputFile, tret, readerBroken, clientVars, logVars>>

\* the running call of the pair reads a record of its stream, or its stream
\* ends; when both calls have returned, the stream of the call that returned
\* last is parsed again by a call that runs alone
NextPair ==
    \/ \E rec \in PairRowsAt(lineNumber + 1) : FirstCallReads(0, rec)
    \/ StreamEnds
    \/ Switch
    \/ other.pc = "done" /\ ParseAgain
    \/ SecondCallReads

SpecPair == InitPair /\ [][NextPair]_vars

(* ------------------------------------------------------------------------ *)
(* C23: two concurrent calls of Parse on different streams do not           *)
(* interfere: under every interleaving a call returns what a call that runs *)
(* alone returns on its stream.                                             *)
(* ------------------------------------------------------------------------ *)
C23_OutcomeAsAlone ==
    (call = 2 /\ pc = "done" /\ other.pc = "done") => ret = firstRet[1]

\* C23 witness: the two calls were interleaved on different streams, both
\* emitted the same foreign transaction first and one of them a fee after it,
\* and the call that ran alone has returned
C23_Witness ==
    /\ call = 2
    /\ pc = "done"
    /\ other.pc = "done"
    /\ other.interleaved
    /\ stream # other.stream
    /\ Len(firstRet[1].result[1].Transactions) = 1
    /\ Len(other.ret.result[1].Transactions) = 2
    /\ firstRet[1].result[1].Transactions[1].ImportID
          = other.ret.result[1].Transactions[1].ImportID
    /\ other.ret.result[1].Transactions[2].Memo # <<>>
    /\ Len(firstRet[1].result[1].Errors) = 1

====
